---------------------------- MODULE Spec2Model ----------------------------
(***************************************************************************)
(* State-machine model of the news_bot ingestion and processing pipeline.  *)
(*                                                                         *)
(*   Spec        the cycle orchestrator NewsBotService.run_full_cycle over *)
(*               the SQLite table `news` (AsyncNewsRepository), run cycle  *)
(*               after cycle as the scheduler does.                        *)
(*   SpecParse   AsyncNewsParserService.parse_all_sources: one task per    *)
(*               enabled source behind an asyncio.Semaphore, each source   *)
(*               guarded by its circuit breaker.                           *)
(*   SpecBreaker one circuit breaker called by concurrent callers.         *)
(*                                                                         *)
(* core/circuit_breaker.py is imported by the services but is not part of  *)
(* the source tree; the breaker operators follow section 4.2 of the        *)
(* specification.                                                          *)
(***************************************************************************)
EXTENDS Integers, Sequences, FiniteSets, TLC

(***************************************************************************)
(* Bounds of the model.                                                    *)
(***************************************************************************)
MaxIds == 2            \* row ids the table ever hands out (AUTOINCREMENT)
MaxNewsPerRun == 2     \* largest configured parsing.max_news_per_run
NumSources == 2        \* configured sources
MaxConcurrentSources == 2  \* largest configured parsing.max_concurrent_sources
TickSeconds == 150     \* seconds by which the clock advances in one step
NumCallers == 3        \* concurrent callers of one breaker
MaxAttempts == 3       \* largest max_attempts of a RetryConfig
MaxTokens == 2         \* access tokens the provider issues
MaxTitleLen == 3       \* longest title given to _generate_content_hash
MaxContentLen == 2     \* longest content given to _generate_content_hash
MaxWords == 3          \* most words of the vocabulary in one text
MaxHandlers == 2       \* most handlers subscribed to one event type
MaxCycles == 2         \* most cycles of one run of the application
MaxBatch == 3          \* most items in one send_multiple_news call

(***************************************************************************)
(* Program constants.                                                      *)
(***************************************************************************)
SendLimit == 5         \* limit=5 in _send_notifications
RetentionDays == 7     \* cleanup_old_news(days=7)
failure_threshold == 3 \* CircuitBreaker(failure_threshold=3, ...)
recovery_timeout == 300 \* CircuitBreaker(..., recovery_timeout=300.0), seconds
strategy_max_attempts == 3 \* @smart_retry(max_attempts=3, ...) on strategy.parse
cleanup_hour == 3      \* AppConfig.cleanup_hour (default)

Ids == 1..MaxIds
Sources == 1..NumSources   \* the sources, in the order of the sources dict
Callers == 1..NumCallers

Min(a, b) == IF a <= b THEN a ELSE b

RECURSIVE SortedSeq(_)
SortedSeq(S) ==
    IF S = {} THEN <<>>
    ELSE LET m == CHOOSE x \in S : \A y \in S : x <= y
         IN  <<m>> \o SortedSeq(S \ {m})

Take(s, n) == SubSeq(s, 1, Min(Len(s), n))

Range(s) == {s[i] : i \in 1..Len(s)}

(***************************************************************************)
(* NewsStatus (core/interfaces.py).                                        *)
(***************************************************************************)
PARSED == "parsed"
PROCESSED == "processed"
SENT == "sent"
FAILED == "failed"
NewsStatus == {PARSED, PROCESSED, SENT, FAILED}

(***************************************************************************)
(* Text is a sequence of characters; " " is whitespace.  strip() removes   *)
(* leading and trailing whitespace.                                        *)
(***************************************************************************)
RECURSIVE LStrip(_)
LStrip(s) == IF s # <<>> /\ Head(s) = " " THEN LStrip(Tail(s)) ELSE s

RECURSIVE RStrip(_)
RStrip(s) ==
    IF s # <<>> /\ s[Len(s)] = " " THEN RStrip(SubSeq(s, 1, Len(s) - 1)) ELSE s

Strip(s) == RStrip(LStrip(s))

\* A fingerprint of the title and the content as they come.
_generate_content_hash_untrimmed(title, content) == title \o content

\* AsyncNewsRepository._generate_content_hash: the digest of
\* title.strip() + content.strip(); the digest is taken as injective, so the
\* digest is represented by the string it is computed from.
_generate_content_hash(title, content) == Strip(title) \o Strip(content)

(***************************************************************************)
(* Candidate items a collector can hand to the pipeline (all of them pass  *)
(* the validation chain).  url "" is an absent URL.                        *)
(***************************************************************************)
Items ==
    { [title |-> <<"a">>,      content |-> <<"b", "c">>,      url |-> "u1"],
      [title |-> <<" ", "a">>, content |-> <<"b", "c", " ">>, url |-> ""],
      [title |-> <<"d">>,      content |-> <<"e">>,           url |-> "u1"] }

\* What one parse_all_sources call can return: nothing, one item, or two items
\* (possibly the same article twice).
ParsedBatches ==
    {<<>>} \cup {<<x>> : x \in Items} \cup {<<x, y>> : x, y \in Items}

\* Successful deliveries of one item, counted as never / once / again.
DeliveredOnceMore(d) == IF d = "never" THEN "once" ELSE "again"

(***************************************************************************)
(* Rows of the table `news`.  NoRow is an id not inserted yet or deleted.  *)
(* rephrased_content is "" (NULL) or "text"; telegram_message_id is 0      *)
(* (NULL) or the id of the message.                                        *)
(***************************************************************************)
NoRow == [status |-> "none", original_hash |-> <<>>, url |-> "",
          rephrased_content |-> "", telegram_message_id |-> 0]

Live(table) == {i \in Ids : table[i].status # "none"}

EventTypes == {"news.parsed", "news.processed", "news.sent",
               "error.occurred", "cycle.completed"}

NoEvents == [t \in EventTypes |-> 0]

NoResult == [kind |-> "none", success |-> FALSE, processed_count |-> 0,
             failed_count |-> 0, errors |-> <<>>]

NoHealth == [checked |-> FALSE, database |-> FALSE, content_processor |-> FALSE,
             notification_service |-> FALSE, overall |-> FALSE]

NoProbe == [database |-> "none", content_processor |-> "none",
            notification_service |-> "none"]

NoCall == [kind |-> "none", ids |-> {}]

\* What datetime.now().hour can be when the cycle reaches the cleanup step.
CurrentHours == {cleanup_hour - 1, cleanup_hour}

VARIABLES
    \* ---- Spec: the cycle orchestrator and the table
    pc,               \* position of run_full_cycle
    news,             \* the table: id -> row
    next_id,          \* next AUTOINCREMENT id
    max_news_per_run, \* config.parsing.max_news_per_run
    batch,            \* unprocessed_news / news_to_send still to handle
    results,          \* results of send_multiple_news still to handle
    health_probe,     \* what the three collaborators answered to the health check
    health_status,    \* the dict check_health returned
    result,           \* the ProcessingResult of the cycle
    events,           \* events published in this cycle, per type
    calls,            \* kinds of collaborator calls made in this cycle
    lastCall,         \* the transformer/broadcaster call made by the last step
    delivered,        \* successful broadcaster deliveries per item
    \* ---- SpecParse: AsyncNewsParserService
    ppc,              \* position of parse_all_sources
    enabled,          \* the sources with enabled = True
    max_concurrent_sources, \* config.max_concurrent_sources
    semaphore,        \* value of the asyncio.Semaphore of this call
    task,             \* position of each _parse_source_with_semaphore task
    circuit_breakers, \* self.circuit_breakers: source -> breaker
    task_result,      \* what each task returned to gather
    outcome,          \* how the fetch of each source ended in this call
    requests,         \* network requests sent per source in this call
    counters,         \* (counter, source) pairs incremented in this call
    validated_news,   \* what parse_all_sources returned
    \* ---- SpecBreaker: one breaker, several callers
    breaker,          \* the breaker
    caller,           \* position of each caller inside call()
    lastB,            \* what the last step did to the breaker
    consecutive,      \* failed calls since the last successful one
    \* ---- SpecRetry: one function wrapped by retry_async / retry_sync
    retry_config,     \* the RetryConfig of the decorator
    rpc,              \* position of the wrapper
    attempt,          \* the loop variable
    invocations,      \* calls of the wrapped function made by this call
    sleeps,           \* delays slept by this call, in order
    failures,         \* failures the wrapped function raised, in order
    last_exception,   \* the wrapper's last_exception
    retry_result,     \* what the wrapper gave its caller
    \* ---- SpecTransform: GigaChatContentProcessor
    tpc,              \* position of process_content
    token_info,       \* self.token_info
    next_token,       \* the next access token the provider issues
    rejected,         \* access tokens the provider answered 401 to
    tbreaker,         \* self.circuit_breaker
    tattempt,         \* loop variable of the retry around _process_with_gigachat
    token_attempt,    \* loop variable of the retry around _get_access_token
    used_token,       \* the token of the chat request sent last
    chat_requests,    \* chat requests sent by this process_content call
    token_requests,   \* token requests sent by this process_content call
    tsleeps,          \* delays slept by this process_content call
    tanswer,          \* the provider's last answer in this call
    tresult,          \* what process_content returned
    tconsecutive,     \* guarded calls that failed since the last one that succeeded
    \* ---- SpecFingerprint: a function on its own
    arguments,        \* the arguments the function is called with
    returned,         \* what it returned
    \* ---- SpecBus: InMemoryEventBus
    handlers,         \* self.handlers: event type -> list of handlers
    published,        \* the bus call of the last step, and what a publish did
    runs,             \* SpecObservers: the same cycle with and without subscribers
    \* ---- history of the table
    seen,             \* fingerprint and URL of every row ever inserted
    \* ---- SpecApp: Application and DIContainer
    objects,          \* the service objects created so far, in order
    singletons,       \* container._singletons: interface -> object
    app               \* the Application: where it is, what it holds

pipelineVars == <<pc, news, next_id, max_news_per_run, batch, results,
                  health_probe, health_status, result, events, calls,
                  lastCall, delivered>>

parseVars == <<ppc, enabled, max_concurrent_sources, semaphore, task,
               circuit_breakers, task_result, outcome, requests, counters,
               validated_news>>

breakerVars == <<breaker, caller, lastB, consecutive>>

retryVars == <<retry_config, rpc, attempt, invocations, sleeps, failures,
               last_exception, retry_result>>

transformVars == <<tpc, token_info, next_token, rejected, tbreaker, tattempt,
                   token_attempt, used_token, chat_requests, token_requests,
                   tsleeps, tanswer, tresult, tconsecutive>>

functionVars == <<arguments, returned>>

busVars == <<handlers, published, runs>>

appVars == <<objects, singletons, app>>

vars == <<pipelineVars, parseVars, breakerVars, retryVars, transformVars,
          functionVars, busVars, seen, appVars>>

\* What the steps of one part of the model leave alone.
notPipelineVars == <<parseVars, breakerVars, retryVars, transformVars,
    functionVars, busVars, seen,
    appVars>>
notParseVars == <<pipelineVars, breakerVars, retryVars, transformVars,
    functionVars, busVars, seen,
    appVars>>
notBreakerVars == <<pipelineVars, parseVars, retryVars, transformVars,
    functionVars, busVars, seen,
    appVars>>
notRetryVars == <<pipelineVars, parseVars, breakerVars, transformVars,
    functionVars, busVars, seen,
    appVars>>
notTransformVars == <<pipelineVars, parseVars, breakerVars, retryVars,
    functionVars, busVars, seen,
    appVars>>
notFunctionVars == <<pipelineVars, parseVars, breakerVars, retryVars,
    transformVars, busVars, seen, appVars>>
notBusVars == <<pipelineVars, parseVars, breakerVars, retryVars,
    transformVars, functionVars, seen, appVars>>
\* What a call of the notification service leaves alone.
notDeliverVars == <<pipelineVars, parseVars, caller, lastB, consecutive,
    retryVars, transformVars, busVars, seen, appVars>>
\* What a step that inserts rows leaves alone.
notStorageVars == <<parseVars, breakerVars, retryVars, transformVars,
    functionVars, busVars, appVars>>
notAppVars == <<pipelineVars, parseVars, breakerVars, retryVars,
    transformVars, functionVars, busVars, seen>>

(***************************************************************************)
(* Circuit breaker (section 4.2 of the specification).  A breaker carries  *)
(* its state, its consecutive-failure counter and the time since its last  *)
(* failure.  The counter is only ever compared with failure_threshold and  *)
(* the time only with recovery_timeout, and only while the breaker is      *)
(* OPEN, so the counter is kept up to failure_threshold and the time, in   *)
(* seconds, up to recovery_timeout.                                        *)
(***************************************************************************)
CLOSED == "closed"
OPEN == "open"
HALF_OPEN == "half_open"

NewBreaker == [state |-> CLOSED, failure_count |-> 0, since_failure |-> 0]

CB_TimeoutElapsed(cb) == cb.since_failure >= recovery_timeout

\* A breaker that only turns calls away while it is OPEN.
CB_Rejects_open_only(cb) == cb.state = OPEN /\ cb.since_failure < recovery_timeout

\* call() fails at once with CircuitBreakerOpenError: the breaker is OPEN and
\* the timeout has not elapsed, or the single trial call is in flight.
CB_Rejects(cb) ==
    \/ cb.state = OPEN /\ ~CB_TimeoutElapsed(cb)
    \/ cb.state = HALF_OPEN

\* The call that finds the breaker OPEN with the timeout elapsed is the trial.
CB_IsTrial(cb) == cb.state = OPEN /\ CB_TimeoutElapsed(cb)

\* The breaker after call() let the operation through.
CB_Admit(cb) == IF cb.state = OPEN THEN [cb EXCEPT !.state = HALF_OPEN] ELSE cb

\* The operation returned.  trial: this call was the trial call.
CB_OnSuccess(cb, trial) ==
    IF trial \/ cb.state = CLOSED THEN NewBreaker ELSE cb

\* A breaker that counts failures but never opens.
CB_OnFailure_never_opens(cb, trial) ==
    [cb EXCEPT !.failure_count = Min(@ + 1, failure_threshold),
               !.since_failure = 0]

\* The operation failed.  trial: this call was the trial call.
CB_OnFailure(cb, trial) ==
    LET n == Min(cb.failure_count + 1, failure_threshold)
    IN  [state |-> IF trial \/ (cb.state = CLOSED /\ n >= failure_threshold)
                   THEN OPEN
                   ELSE cb.state,
         failure_count |-> n,
         since_failure |-> 0]

\* TickSeconds pass.
CB_Tick(cb) ==
    IF cb.state = OPEN
    THEN [cb EXCEPT !.since_failure = Min(@ + TickSeconds, recovery_timeout)]
    ELSE cb

NoCaller == [pc |-> "idle", trial |-> FALSE]

NoBreakerStep == [kind |-> "none", caller |-> 0, signal |-> "none",
                  invoked |-> FALSE]

\* One breaker after construction, no call in progress.
BreakerConstructed ==
    /\ breaker = NewBreaker
    /\ caller = [c \in Callers |-> NoCaller]
    /\ lastB = NoBreakerStep
    /\ consecutive = 0

(***************************************************************************)
(* Retry policy (core/retry.py).  Delays are whole seconds.                *)
(***************************************************************************)
None == [kind |-> "None", attempt |-> 0]

NoRetryResult == [kind |-> "none", failure |-> None]

\* A function decorated with RetryConfig cfg, not called yet.
RetryDecorated(cfg) ==
    /\ retry_config = cfg
    /\ rpc = "idle"
    /\ attempt = 0
    /\ invocations = 0
    /\ sleeps = <<>>
    /\ failures = <<>>
    /\ last_exception = None
    /\ retry_result = NoRetryResult

\* RetryConfig() with its defaults (lines 10-18).
DefaultRetryConfig ==
    [max_attempts |-> 3, base_delay |-> 1, max_delay |-> 60,
     exponential_base |-> 2, jitter |-> TRUE]

(***************************************************************************)
(* GigaChatContentProcessor after construction                             *)
(* (content_processor_service.py 25-30): no token, a breaker of its own.   *)
(* An access token is a number, 0 is no token.                             *)
(***************************************************************************)
NoToken == [access_token |-> 0, expired |-> TRUE]

ProcessorConstructed ==
    /\ tpc = "idle"
    /\ token_info = NoToken
    /\ next_token = 1
    /\ rejected = {}
    /\ tbreaker = NewBreaker
    /\ tattempt = 0
    /\ token_attempt = 0
    /\ used_token = 0
    /\ chat_requests = 0
    /\ token_requests = 0
    /\ tsleeps = <<>>
    /\ tanswer = "none"
    /\ tresult = "none"
    /\ tconsecutive = 0

(***************************************************************************)
(* InMemoryEventBus after construction (event_bus.py 9-11): no handlers.   *)
(* The bus is studied for two event types.                                 *)
(***************************************************************************)
BusTypes == {"news.processed", "cycle.completed"}

NoPublish == [kind |-> "none"]

NoRuns == [r \in {"bare", "observed"} |-> [pc |-> "none"]]

BusConstructed ==
    /\ handlers = [t \in BusTypes |-> <<>>]
    /\ published = NoPublish
    /\ runs = NoRuns
    /\ seen = {}

(***************************************************************************)
(* Application after __init__ and _setup_container (app.py 38-43, 64-131): *)
(* no service object exists, the container holds the registrations only,   *)
(* the shutdown event is clear.                                            *)
(***************************************************************************)
\* The keys of the sources dict and the names the sources can be given
\* (config_manager.py 177-188, 233-260).
SourceIds == {"lenta_ru", "tass"}

SourceNames == {"lenta_ru", "Lenta.ru (Saratov)", "TASS (Regiony)"}

\* _get_default_sources: source id -> SourceConfig.name.
default_sources ==
    [id \in SourceIds |->
       IF id = "lenta_ru" THEN "Lenta.ru (Saratov)" ELSE "TASS (Regiony)"]

Interfaces == {"IMetricsCollector", "IEventBus", "NewsValidationChain",
               "INewsRepository", "INewsParser", "IContentProcessor",
               "INotificationService", "IHealthChecker", "NewsBotService"}

NoCycle == [parser_session |-> "none", processor_session |-> "none",
            same_parser |-> FALSE, same_processor |-> FALSE,
            after_shutdown |-> FALSE, used |-> {}, unavailable |-> {}]

\* Application.__init__ with the sources the configuration holds.
NewApplication(news_sources) ==
    [pc |-> "created", news_sources |-> news_sources, bot_service |-> 0,
     context_parser |-> 0, context_processor |-> 0,
     handlers_installed |-> FALSE, shutdown_event |-> FALSE, cycles |-> 0,
     running |-> 0, cycle |-> NoCycle, last_result |-> "none"]

EmptyContainer ==
    /\ objects = <<>>
    /\ singletons = [i \in Interfaces |-> 0]

ApplicationCreated ==
    /\ EmptyContainer
    /\ app = NewApplication(default_sources)

\* No function is being studied on its own.
NoReturn == [kind |-> "none"]

NoFunctionCalled ==
    /\ arguments = <<>>
    /\ returned = NoReturn

(***************************************************************************)
(* AsyncNewsParserService after construction (lines 15-46): one breaker    *)
(* per configured source, no parse_all_sources call made yet.              *)
(***************************************************************************)
NoRequests == [probe |-> 0, collect |-> 0]

ParserConstructed(en, cap) ==
    /\ ppc = "idle"
    /\ enabled = en
    /\ max_concurrent_sources = cap
    /\ semaphore = 0
    /\ task = [s \in Sources |-> "none"]
    /\ circuit_breakers = [s \in Sources |-> NewBreaker]
    /\ task_result = [s \in Sources |-> <<>>]
    /\ outcome = [s \in Sources |-> "none"]
    /\ requests = [s \in Sources |-> NoRequests]
    /\ counters = {}
    /\ validated_news = <<>>

(***************************************************************************)
(* AsyncNewsRepository                                                     *)
(***************************************************************************)
\* news_exists without the check by URL.
news_exists_hash_only(table, item) ==
    \E i \in Live(table) :
        table[i].original_hash = _generate_content_hash(item.title, item.content)

\* news_exists: by content hash first, then by URL when the item has one.
news_exists(table, item) ==
    LET content_hash == _generate_content_hash(item.title, item.content)
    IN  \/ \E i \in Live(table) : table[i].original_hash = content_hash
        \/ /\ item.url # ""
           /\ \E i \in Live(table) : table[i].url = item.url

\* save_news with the news_exists check left out.
save_news_unchecked(table, nid, item, storage_ok) ==
    IF ~storage_ok
    THEN [table |-> table, next_id |-> nid, id |-> 0]
    ELSE [table |-> [table EXCEPT ![nid] =
                        [status |-> PARSED,
                         original_hash |->
                             _generate_content_hash(item.title, item.content),
                         url |-> item.url,
                         rephrased_content |-> "",
                         telegram_message_id |-> 0]],
          next_id |-> nid + 1,
          id |-> nid]

\* save_news: [table, next_id, id]; id 0 is the None the method returns for a
\* duplicate and for any storage error (caught inside the method).
save_news(table, nid, item, storage_ok) ==
    IF ~storage_ok \/ news_exists(table, item)
    THEN [table |-> table, next_id |-> nid, id |-> 0]
    ELSE [table |-> [table EXCEPT ![nid] =
                        [status |-> PARSED,
                         original_hash |->
                             _generate_content_hash(item.title, item.content),
                         url |-> item.url,
                         rephrased_content |-> "",
                         telegram_message_id |-> 0]],
          next_id |-> nid + 1,
          id |-> nid]

\* get_news_by_status with the status filter dropped.
get_news_by_status_any(table, status, limit) ==
    Take(SortedSeq(Live(table)), limit)

\* get_news_by_status: WHERE status = ? ORDER BY created_date ASC LIMIT ?
get_news_by_status(table, status, limit) ==
    Take(SortedSeq({i \in Live(table) : table[i].status = status}), limit)

\* update_news_status that writes the status column only.
update_status_only(table, id, status, rephrased, message_id, storage_ok) ==
    IF ~storage_ok \/ id \notin Live(table)
    THEN [table |-> table, success |-> FALSE]
    ELSE [table |-> [table EXCEPT ![id].status = status], success |-> TRUE]

\* update_news_status: [table, success].  A storage error is caught inside the
\* method and leaves the row as it was; an unknown id updates no row.
update_news_status(table, id, status, rephrased, message_id, storage_ok) ==
    IF ~storage_ok \/ id \notin Live(table)
    THEN [table |-> table, success |-> FALSE]
    ELSE [table |-> [table EXCEPT
                        ![id].status = status,
                        ![id].rephrased_content =
                            IF rephrased # "" THEN rephrased ELSE @,
                        ![id].telegram_message_id =
                            IF message_id # 0 THEN message_id ELSE @],
          success |-> TRUE]

\* cleanup_old_news with the status condition left out.
cleanup_old_news_any_status(table, older, storage_ok) ==
    IF ~storage_ok THEN table
    ELSE [i \in Ids |-> IF i \in older THEN NoRow ELSE table[i]]

\* cleanup_old_news: DELETE ... WHERE created_date < now - days AND status = 'sent'.
\* `older` is the set of rows created more than `days` days ago.
cleanup_old_news(table, older, storage_ok) ==
    IF ~storage_ok THEN table
    ELSE [i \in Ids |->
            IF i \in older /\ table[i].status = SENT THEN NoRow ELSE table[i]]


(***************************************************************************)
(* InMemoryEventBus.publish: every handler is awaited under                *)
(* gather(return_exceptions=True); the call itself never raises.           *)
(***************************************************************************)
publish(ev, event_type) == [ev EXCEPT ![event_type] = @ + 1]

(***************************************************************************)
(* HealthCheckerService                                                    *)
(***************************************************************************)
DatabaseAnswers == {"ok", "invalid", "raise"}
ServiceAnswers == {"true", "false", "raise"}

\* get_statistics answered with a dict holding 'total_news', with something
\* else, or raised (caught: False).
_check_database_health(answer) == answer = "ok"

\* is_available() answered True, False, or raised (caught: False).
_check_content_processor_health(answer) == answer = "true"

_check_notification_service_health(answer) == answer = "true"

\* any() where the code says all().
overall_healthy_any(database, content_processor, notification_service) ==
    database \/ content_processor \/ notification_service

\* overall_healthy = all(health_status.values())
overall_healthy(database, content_processor, notification_service) ==
    database /\ content_processor /\ notification_service

check_health(probe) ==
    LET database == _check_database_health(probe.database)
        content_processor ==
            _check_content_processor_health(probe.content_processor)
        notification_service ==
            _check_notification_service_health(probe.notification_service)
    IN  [checked |-> TRUE,
         database |-> database,
         content_processor |-> content_processor,
         notification_service |-> notification_service,
         overall |-> overall_healthy(database, content_processor,
                                     notification_service)]

(***************************************************************************)
(* NewsBotService.run_full_cycle                                           *)
(***************************************************************************)
HealthFailedMsg == "Health check failed, skipping cycle"
CriticalMsg == "Critical error in full cycle"

\* The early return of the health gate (lines 57-70).
health_gate_result ==
    [kind |-> "returned", success |-> FALSE, processed_count |-> 0,
     failed_count |-> 0, errors |-> <<HealthFailedMsg>>]

\* A top-level handler that lets the exception escape to the caller.
cycle_except_reraise(errors) ==
    [kind |-> "raised", success |-> FALSE, processed_count |-> 0,
     failed_count |-> 0, errors |-> errors]

\* The top-level handler `except Exception` (lines 126-144).
cycle_except_result(errors) ==
    [kind |-> "returned", success |-> FALSE, processed_count |-> 0,
     failed_count |-> 1, errors |-> Append(errors, CriticalMsg)]

\* A stage whose handler lets the exception escape: it reaches the top-level
\* handler and ends the cycle.
stage_except_propagates(next_stage) ==
    [pc |-> "idle", result |-> cycle_except_result(<<>>)]

\* The handler `except Exception` of a stage (lines 179-182, 235-238,
\* 294-297): the stage returns 0 and run_full_cycle goes on with the next one.
stage_except(next_stage) == [pc |-> next_stage, result |-> NoResult]

\* The normal return (lines 118-124); errors is the list created at line 52.
cycle_success_result(ev, errors) ==
    [kind |-> "returned", success |-> TRUE,
     processed_count |-> ev["news.parsed"] + ev["news.processed"]
                         + ev["news.sent"],
     failed_count |-> 0, errors |-> errors]

Init ==
    /\ pc = "idle"
    /\ news = [i \in Ids |-> NoRow]
    /\ next_id = 1
    /\ max_news_per_run \in 1..MaxNewsPerRun
    /\ batch = <<>>
    /\ results = <<>>
    /\ health_probe = NoProbe
    /\ health_status = NoHealth
    /\ result = NoResult
    /\ events = NoEvents
    /\ calls = {}
    /\ lastCall = NoCall
    /\ delivered = [i \in Ids |-> "never"]
    /\ ParserConstructed(Sources, 1)
    /\ BreakerConstructed
    /\ RetryDecorated(DefaultRetryConfig)
    /\ ProcessorConstructed
    /\ BusConstructed
    /\ ApplicationCreated
    /\ NoFunctionCalled

\* The scheduler (or run_once) calls run_full_cycle; the previous cycle has
\* returned.  Lines 46-52.
StartCycle ==
    /\ UNCHANGED notPipelineVars
    /\ pc = "idle"
    /\ pc' = "health"
    /\ batch' = <<>>
    /\ results' = <<>>
    /\ health_probe' = NoProbe
    /\ health_status' = NoHealth
    /\ result' = NoResult
    /\ events' = NoEvents
    /\ calls' = {}
    /\ lastCall' = NoCall
    /\ UNCHANGED <<news, next_id, max_news_per_run, delivered>>

\* 1. Health check (lines 55-70).
HealthCheck ==
    /\ UNCHANGED notPipelineVars
    /\ pc = "health"
    /\ \E d \in DatabaseAnswers, c \in ServiceAnswers, n \in ServiceAnswers :
         LET probe == [database |-> d, content_processor |-> c,
                       notification_service |-> n]
             hs == check_health(probe)
         IN  /\ health_probe' = probe
             /\ health_status' = hs
             /\ IF ~hs.overall
                THEN /\ events' = publish(events, "error.occurred")
                     /\ result' = health_gate_result
                     /\ pc' = "idle"
                ELSE /\ pc' = "parse"
                     /\ UNCHANGED <<events, result>>
    /\ lastCall' = NoCall
    /\ UNCHANGED <<news, next_id, max_news_per_run, batch, results, calls,
                   delivered>>

\* The fingerprint and the URL of the rows of the table.
Inserted(table) ==
    {[original_hash |-> table[i].original_hash, url |-> table[i].url] :
        i \in Live(table)}

\* The loop of _parse_and_save_news over the parsed items (lines 159-172):
\* [table, next_id, saved].
RECURSIVE save_all(_, _, _, _)
save_all(table, nid, items, oks) ==
    IF items = <<>> THEN [table |-> table, next_id |-> nid, saved |-> 0]
    ELSE LET r == save_news(table, nid, Head(items), Head(oks))
             rest == save_all(r.table, r.next_id, Tail(items), Tail(oks))
         IN  [rest EXCEPT !.saved = @ + (IF r.id # 0 THEN 1 ELSE 0)]

\* 2. _parse_and_save_news (lines 147-182).  parse_all_sources raises or
\* returns a list; every exception is caught inside the stage.
ParseAndSave ==
    /\ UNCHANGED notStorageVars
    /\ pc = "parse"
    /\ \E parser_ok \in BOOLEAN :
       \E news_items \in ParsedBatches :
       \E oks \in [1..Len(news_items) -> BOOLEAN] :
         LET r == save_all(news, next_id, news_items, oks)
         IN  /\ parser_ok \/ news_items = <<>>
             /\ r.next_id <= MaxIds + 1
             /\ news' = r.table
             /\ seen' = seen \cup Inserted(r.table)
             /\ next_id' = r.next_id
             /\ events' = [events EXCEPT !["news.parsed"] = @ + r.saved]
             /\ calls' = calls \cup {"fetch"}
                         \cup (IF news_items # <<>> THEN {"save"} ELSE {})
             /\ pc' = IF parser_ok THEN "process"
                      ELSE stage_except("process").pc
             /\ result' = IF parser_ok THEN result
                          ELSE stage_except("process").result
    /\ lastCall' = NoCall
    /\ UNCHANGED <<max_news_per_run, batch, results, health_probe,
                   health_status, delivered>>

\* A stage that also takes the failed items again.
unprocessed_news_retry_failed(table, limit) ==
    Take(SortedSeq({i \in Live(table) :
                       table[i].status \in {PARSED, FAILED}}), limit)

\* A stage that reads the parsed items without the limit.
unprocessed_news_unlimited(table, limit) ==
    get_news_by_status(table, PARSED, MaxIds)

\* _process_news_content reads the items to transform (lines 188-197).
unprocessed_news(table, limit) == get_news_by_status(table, PARSED, limit)

\* 3a. _process_news_content up to the loop; a raising get_news_by_status is
\* caught by the stage (lines 235-238).
ProcessBegin ==
    /\ UNCHANGED notPipelineVars
    /\ pc = "process"
    /\ \E storage_ok \in BOOLEAN :
         LET todo == IF storage_ok
                     THEN unprocessed_news(news, max_news_per_run)
                     ELSE <<>>
         IN  /\ batch' = todo
             /\ pc' = IF ~storage_ok THEN stage_except("send").pc
                      ELSE IF todo = <<>> THEN "send" ELSE "process_item"
             /\ result' = IF storage_ok THEN result
                          ELSE stage_except("send").result
    /\ lastCall' = NoCall
    /\ UNCHANGED <<news, next_id, max_news_per_run, results, health_probe,
                   health_status, events, calls, delivered>>

TransformAnswers == {"text", "nothing", "raise"}

\* asyncio.sleep(delay_seconds) is the last statement of the branch taken when
\* process_content returned text (line 222); the other branch and the handler
\* of a raised failure have no sleep.
sleep_after(answer) == answer = "text"

\* 3b. One iteration of the loop (lines 200-230): the transformer answers with
\* text, with nothing, or raises; then the status update and, after text, the
\* sleep.
ProcessItem ==
    /\ UNCHANGED notPipelineVars
    /\ pc = "process_item"
    /\ batch # <<>>
    /\ LET id == Head(batch)
       IN  \E answer \in TransformAnswers, storage_ok \in BOOLEAN :
             LET u == IF answer = "text"
                      THEN update_news_status(news, id, PROCESSED, "text", 0,
                                              storage_ok)
                      ELSE update_news_status(news, id, FAILED, "", 0,
                                              storage_ok)
             IN  /\ news' = u.table
                 /\ events' = IF answer = "text" /\ u.success
                              THEN publish(events, "news.processed")
                              ELSE events
                 /\ lastCall' = [kind |-> "transform", ids |-> {id},
                                 answer |-> answer, stored |-> u.success,
                                 slept |-> sleep_after(answer)]
    /\ calls' = calls \cup {"transform"}
    /\ batch' = Tail(batch)
    /\ pc' = IF Tail(batch) = <<>> THEN "send" ELSE "process_item"
    /\ UNCHANGED <<next_id, max_news_per_run, results, health_probe,
                   health_status, result, delivered>>

\* _send_notifications reads the items to deliver (lines 246-249).
ready_news(table) == get_news_by_status(table, PROCESSED, SendLimit)

\* Only items with rephrased content are sent (lines 256-259).
news_to_send(table) ==
    SelectSeq(ready_news(table), LAMBDA i : table[i].rephrased_content # "")

\* 4a. _send_notifications up to the broadcaster call (lines 244-263).
SendBegin ==
    /\ UNCHANGED notPipelineVars
    /\ pc = "send"
    /\ \E storage_ok \in BOOLEAN :
         LET todo == IF storage_ok THEN news_to_send(news) ELSE <<>>
         IN  /\ batch' = todo
             /\ pc' = IF ~storage_ok THEN stage_except("cleanup").pc
                      ELSE IF todo = <<>> THEN "cleanup" ELSE "send_multiple"
             /\ result' = IF storage_ok THEN result
                          ELSE stage_except("cleanup").result
    /\ lastCall' = NoCall
    /\ UNCHANGED <<news, next_id, max_news_per_run, results, health_probe,
                   health_status, events, calls, delivered>>

\* 4b. send_multiple_news (line 266; notification_service.py 57-78): one
\* result (news.id, message_id, success) per item, in order; message_id is
\* None (0) when the item was not delivered.
SendMultiple ==
    /\ UNCHANGED notPipelineVars
    /\ pc = "send_multiple"
    /\ \E sent \in SUBSET Range(batch) :
         /\ results' = [k \in 1..Len(batch) |->
                          [news_id |-> batch[k],
                           message_id |-> IF batch[k] \in sent THEN 1 ELSE 0,
                           success |-> batch[k] \in sent]]
         /\ delivered' = [i \in Ids |->
                            IF i \in sent
                            THEN DeliveredOnceMore(delivered[i])
                            ELSE delivered[i]]
    /\ lastCall' = [kind |-> "deliver", ids |-> Range(batch)]
    /\ calls' = calls \cup {"deliver"}
    /\ batch' = <<>>
    /\ pc' = "update_results"
    /\ UNCHANGED <<news, next_id, max_news_per_run, health_probe,
                   health_status, result, events>>

\* 4c. One iteration of the loop over the results (lines 270-289).  The value
\* update_news_status returns is not looked at.
UpdateResult ==
    /\ UNCHANGED notPipelineVars
    /\ pc = "update_results"
    /\ results # <<>>
    /\ LET r == Head(results)
       IN  \E storage_ok \in BOOLEAN :
             IF r.success
             THEN /\ news' = update_news_status(news, r.news_id, SENT, "",
                                                r.message_id, storage_ok).table
                  /\ events' = publish(events, "news.sent")
             ELSE /\ news' = update_news_status(news, r.news_id, FAILED, "",
                                                0, storage_ok).table
                  /\ UNCHANGED events
    /\ results' = Tail(results)
    /\ pc' = IF Tail(results) = <<>> THEN "cleanup" ELSE "update_results"
    /\ lastCall' = NoCall
    /\ UNCHANGED <<next_id, max_news_per_run, batch, health_probe,
                   health_status, result, calls, delivered>>

\* 5. Cleanup when the current hour is the cleanup hour (lines 82-86).  Rows
\* are created in id order, so the rows older than the retention window are
\* the rows up to some id.
Cleanup ==
    /\ UNCHANGED notPipelineVars
    /\ pc = "cleanup"
    /\ \E current_hour \in CurrentHours :
         IF current_hour = cleanup_hour
         THEN /\ \E k \in 0..MaxIds, storage_ok \in BOOLEAN :
                   LET older == {i \in Ids : i <= k}
                   IN  /\ news' = cleanup_old_news(news, older, storage_ok)
                       /\ lastCall' = [kind |-> "cleanup", ids |-> older,
                                       hour |-> current_hour]
              /\ calls' = calls \cup {"cleanup"}
         ELSE /\ lastCall' = [kind |-> "none", ids |-> {},
                              hour |-> current_hour]
              /\ UNCHANGED <<news, calls>>
    /\ pc' = "stats"
    /\ UNCHANGED <<next_id, max_news_per_run, batch, results, health_probe,
                   health_status, result, events, delivered>>

\* 6. get_statistics and the return (lines 89-124); get_statistics has no
\* handler of its own, so a storage error reaches the top-level handler
\* (lines 126-144).
FinishCycle ==
    /\ UNCHANGED notPipelineVars
    /\ pc = "stats"
    /\ \E storage_ok \in BOOLEAN :
         IF storage_ok
         THEN /\ events' = publish(events, "cycle.completed")
              /\ result' = cycle_success_result(events, <<>>)
         ELSE /\ events' = publish(events, "error.occurred")
              /\ result' = cycle_except_result(<<>>)
    /\ pc' = "idle"
    /\ lastCall' = NoCall
    /\ UNCHANGED <<news, next_id, max_news_per_run, batch, results,
                   health_probe, health_status, calls, delivered>>

Next ==
    \/ StartCycle
    \/ HealthCheck
    \/ ParseAndSave
    \/ ProcessBegin
    \/ ProcessItem
    \/ SendBegin
    \/ SendMultiple
    \/ UpdateResult
    \/ Cleanup
    \/ FinishCycle

Spec == Init /\ [][Next]_vars

(***************************************************************************)
(* Properties of the cycle orchestrator (specification Spec).              *)
(***************************************************************************)
Unhealthy(probe) ==
    \/ probe.database # "ok"
    \/ probe.content_processor # "true"
    \/ probe.notification_service # "true"

\* C1: whenever one of the three health checks answers unhealthy or raises,
\* the cycle has returned success=false with exactly one error message, has
\* published exactly one 'error.occurred' event and has made no fetch, save,
\* transform, deliver or cleanup call.
C1_HealthGateAborts ==
    (health_status.checked /\ Unhealthy(health_probe)) =>
        /\ ~health_status.overall
        /\ pc = "idle"
        /\ result.kind = "returned"
        /\ ~result.success
        /\ Len(result.errors) = 1
        /\ result.errors[1] = HealthFailedMsg
        /\ events["error.occurred"] = 1
        /\ calls = {}
        /\ lastCall = NoCall

\* A cycle aborted because only the transformer is unavailable, with items of
\* an earlier cycle waiting in the table.
C1_Witness ==
    /\ health_probe = [database |-> "ok", content_processor |-> "false",
                       notification_service |-> "true"]
    /\ result.kind = "returned"
    /\ \E i \in Ids : news[i].status = PARSED

\* C2: run_full_cycle never raises: a finished cycle has returned a result, and
\* a result with success=false carries at least one error message.
C2_NeverRaises ==
    /\ result.kind # "raised"
    /\ (pc = "idle" /\ health_status.checked) => result.kind = "returned"
    /\ (result.kind = "returned" /\ ~result.success) => Len(result.errors) >= 1

\* A cycle that passed the health gate and ended in the top-level handler.
C2_Witness ==
    /\ pc = "idle"
    /\ health_status.overall
    /\ result.kind = "returned"
    /\ ~result.success
    /\ result.failed_count = 1

AllowedMove(a, b) ==
    \/ a = b
    \/ a = "none" /\ b = PARSED
    \/ a = PARSED /\ b \in {PROCESSED, FAILED}
    \/ a = PROCESSED /\ b \in {SENT, FAILED}
    \/ b = "none"

\* C3: in every step the status of a row stays, or moves parsed -> processed,
\* processed -> sent, or to failed from parsed or processed (a row is created
\* as parsed and may be deleted): no regress, no skipped stage.
C3_StatusLifecycle ==
    [][\A i \in Ids : AllowedMove(news[i].status, news'[i].status)]_vars

\* One item went all the way to sent and another failed in delivery.
C3_Witness ==
    \E i, j \in Ids :
        /\ news[i].status = SENT
        /\ news[j].status = FAILED
        /\ news[j].rephrased_content # ""

\* C4: once a row is failed its status never changes and no later step calls
\* the transformer or the broadcaster for it.
C4_FailedIsTerminal ==
    [][\A i \in Ids :
          news[i].status = FAILED =>
              /\ news'[i].status = FAILED
              /\ ~(lastCall'.kind \in {"transform", "deliver"}
                   /\ i \in lastCall'.ids)]_vars

\* A later cycle transforms another item while an earlier one is failed.
C4_Witness ==
    \E i, j \in Ids :
        /\ i # j
        /\ news[i].status = FAILED
        /\ lastCall.kind = "transform"
        /\ lastCall.ids = {j}
        /\ events["news.parsed"] = 0

\* C5: no item is successfully delivered by the broadcaster more than once.
C5_DeliveredAtMostOnce == \A i \in Ids : delivered[i] # "again"

(***************************************************************************)
(* AsyncNewsParserService.parse_all_sources (specification SpecParse).     *)
(*                                                                         *)
(* A task is "waiting" for the semaphore, "probing" (the HEAD request of   *)
(* is_source_available is out), "collecting" (the breaker let              *)
(* _parse_source_internal through) or "done".  The tasks run on one event  *)
(* loop, so what a task does between two awaits is one step.               *)
(***************************************************************************)
\* A collected item: the source it came from, whether the validation chain
\* accepts it, and its title and content.  The item the chain accepts is an
\* article that every source carries; the one it rejects has no title.
Item(s, ok) ==
    [source |-> s, valid |-> ok,
     title |-> IF ok THEN <<"a">> ELSE <<>>, content |-> <<"b", "c">>]

\* What the strategy of source s can return.
Collected(s) ==
    {<<>>, <<Item(s, TRUE)>>, <<Item(s, FALSE), Item(s, TRUE)>>}

\* How _parse_source_internal can end: the strategy returns its items; the
\* strategy catches a network error or timeout itself, counts it and returns
\* [] (strategies.py 62-65, 157-160); or an exception leaves
\* _parse_source_internal (create_strategy raises, or a strategy that lets
\* its error out).
CollectAnswers == {"items", "swallowed", "raise"}

\* Counters that record the failed fetch of one source.
FailureCounters ==
    {"parser.source_error", "parser.availability_check_failed",
     "parsing.error"}

\* asyncio.Semaphore.acquire goes through when the value is positive.
can_acquire_always(value) == TRUE

can_acquire(value) == value > 0

\* Leaving `async with semaphore` gives the slot back only after a fetch
\* that brought items.
semaphore_after_exit_success_only(value, failed) ==
    IF failed THEN value ELSE value + 1

\* Leaving `async with semaphore` (line 126) gives the slot back, however the
\* fetch ended.
semaphore_after_exit(value, failed) == value + 1

\* A parse_source that reports the failed probe to the breaker.
on_unavailable_counts_failure(cb) == CB_OnFailure(cb, cb.state = HALF_OPEN)

\* The breaker of a source whose probe failed: parse_source returns [] before
\* circuit_breaker.call (lines 138-140), so the breaker is not touched.
on_unavailable(cb) == cb

\* A merge that gives up at the first source that returned nothing.
RECURSIVE all_news_until_empty(_, _)
all_news_until_empty(order, res) ==
    IF order = <<>> \/ res[Head(order)] = <<>> THEN <<>>
    ELSE res[Head(order)] \o all_news_until_empty(Tail(order), res)

\* The loop over the gather results (lines 88-101): every task returned a
\* list, because parse_source catches every exception (lines 145-148).
RECURSIVE all_news(_, _)
all_news(order, res) ==
    IF order = <<>> THEN <<>>
    ELSE res[Head(order)] \o all_news(Tail(order), res)

\* The validation loop (lines 107-115).
validate_all(items) == SelectSeq(items, LAMBDA n : n.valid)

InitParse ==
    /\ pc = "idle"
    /\ news = [i \in Ids |-> NoRow]
    /\ next_id = 1
    /\ max_news_per_run = 1
    /\ batch = <<>>
    /\ results = <<>>
    /\ health_probe = NoProbe
    /\ health_status = NoHealth
    /\ result = NoResult
    /\ events = NoEvents
    /\ calls = {}
    /\ lastCall = NoCall
    /\ delivered = [i \in Ids |-> "never"]
    /\ \E en \in SUBSET Sources, cap \in 1..MaxConcurrentSources :
         ParserConstructed(en, cap)
    /\ BreakerConstructed
    /\ RetryDecorated(DefaultRetryConfig)
    /\ ProcessorConstructed
    /\ BusConstructed
    /\ ApplicationCreated
    /\ NoFunctionCalled

\* parse_all_sources up to gather (lines 64-85): no enabled source returns []
\* at once; otherwise a new semaphore and one task per enabled source.
ParseAllSources ==
    /\ UNCHANGED notParseVars
    /\ ppc \in {"idle", "returned"}
    /\ task_result' = [s \in Sources |-> <<>>]
    /\ outcome' = [s \in Sources |-> "none"]
    /\ requests' = [s \in Sources |-> NoRequests]
    /\ counters' = {}
    /\ validated_news' = <<>>
    /\ IF enabled = {}
       THEN /\ ppc' = "returned"
            /\ UNCHANGED <<semaphore, task>>
       ELSE /\ ppc' = "gathering"
            /\ semaphore' = max_concurrent_sources
            /\ task' = [s \in Sources |->
                          IF s \in enabled THEN "waiting" ELSE "none"]
    /\ UNCHANGED <<enabled, max_concurrent_sources, circuit_breakers>>

\* _parse_source_with_semaphore enters `async with semaphore` (line 126) and
\* parse_source sends the HEAD request of is_source_available (lines 138,
\* 167).
AcquireSemaphore(s) ==
    /\ UNCHANGED notParseVars
    /\ ppc = "gathering"
    /\ task[s] = "waiting"
    /\ can_acquire(semaphore)
    /\ semaphore' = semaphore - 1
    /\ task' = [task EXCEPT ![s] = "probing"]
    /\ requests' = [requests EXCEPT ![s].probe = @ + 1]
    /\ UNCHANGED <<ppc, enabled, max_concurrent_sources, circuit_breakers,
                   task_result, outcome, counters, validated_news>>

\* The probe is answered (lines 164-184).  An unavailable source returns []
\* (lines 138-140).  For an available one circuit_breaker.call is made (line
\* 143): it raises CircuitBreakerOpenError, caught at line 145, or lets
\* _parse_source_internal send its request.
ProbeAnswer(s) ==
    /\ UNCHANGED notParseVars
    /\ ppc = "gathering"
    /\ task[s] = "probing"
    /\ \E is_available \in BOOLEAN :
         IF ~is_available
         THEN /\ task' = [task EXCEPT ![s] = "done"]
              /\ outcome' = [outcome EXCEPT ![s] = "unavailable"]
              /\ counters' = counters
                             \cup {<<"parser.availability_check_failed", s>>}
              /\ semaphore' = semaphore_after_exit(semaphore, TRUE)
              /\ circuit_breakers' =
                   [circuit_breakers EXCEPT ![s] = on_unavailable(@)]
              /\ UNCHANGED requests
         ELSE IF CB_Rejects(circuit_breakers[s])
         THEN /\ task' = [task EXCEPT ![s] = "done"]
              /\ outcome' = [outcome EXCEPT ![s] = "breaker_open"]
              /\ counters' = counters \cup {<<"parser.source_error", s>>}
              /\ semaphore' = semaphore_after_exit(semaphore, TRUE)
              /\ UNCHANGED <<circuit_breakers, requests>>
         ELSE /\ task' = [task EXCEPT ![s] = "collecting"]
              /\ circuit_breakers' =
                   [circuit_breakers EXCEPT ![s] = CB_Admit(@)]
              /\ requests' = [requests EXCEPT ![s].collect = @ + 1]
              /\ UNCHANGED <<outcome, counters, semaphore>>
    /\ UNCHANGED <<ppc, enabled, max_concurrent_sources, task_result,
                   validated_news>>

\* _parse_source_internal ends (lines 150-162) and the breaker takes note;
\* an exception is caught at lines 145-148.  The task of a source is the only
\* caller of its breaker, so it is the trial call exactly when the breaker is
\* HALF_OPEN.
CollectAnswer(s) ==
    /\ UNCHANGED notParseVars
    /\ ppc = "gathering"
    /\ task[s] = "collecting"
    /\ LET trial == circuit_breakers[s].state = HALF_OPEN
       IN  \E answer \in CollectAnswers, items \in Collected(s) :
             /\ answer # "items" => items = <<>>
             /\ task_result' = [task_result EXCEPT ![s] = items]
             /\ outcome' = [outcome EXCEPT ![s] =
                              CASE answer = "items" -> "ok"
                                [] answer = "swallowed" -> "swallowed"
                                [] OTHER -> "raised"]
             /\ counters' =
                  counters \cup
                  (CASE answer = "items" -> {}
                     [] answer = "swallowed" -> {<<"parsing.error", s>>}
                     [] OTHER -> {<<"parser.source_error", s>>})
             /\ circuit_breakers' =
                  [circuit_breakers EXCEPT ![s] =
                     IF answer = "raise"
                     THEN CB_OnFailure(@, trial)
                     ELSE CB_OnSuccess(@, trial)]
             /\ semaphore' = semaphore_after_exit(semaphore,
                                                  answer # "items")
    /\ task' = [task EXCEPT ![s] = "done"]
    /\ UNCHANGED <<ppc, enabled, max_concurrent_sources, requests,
                   validated_news>>

\* gather has every result; merge and validate (lines 88-123).
GatherReturn ==
    /\ UNCHANGED notParseVars
    /\ ppc = "gathering"
    /\ \A s \in enabled : task[s] = "done"
    /\ validated_news' =
         validate_all(all_news(SortedSeq(enabled), task_result))
    /\ counters' = counters \cup {<<"parser.source_success", s>> : s \in enabled}
    /\ ppc' = "returned"
    /\ UNCHANGED <<enabled, max_concurrent_sources, semaphore, task,
                   circuit_breakers, task_result, outcome, requests>>

\* Time passes.
TimePasses ==
    /\ UNCHANGED notParseVars
    /\ \E s \in Sources : circuit_breakers[s] # CB_Tick(circuit_breakers[s])
    /\ circuit_breakers' = [s \in Sources |-> CB_Tick(circuit_breakers[s])]
    /\ UNCHANGED <<ppc, enabled, max_concurrent_sources, semaphore, task,
                   task_result, outcome, requests, counters, validated_news>>

NextParse ==
    \/ ParseAllSources
    \/ \E s \in Sources : AcquireSemaphore(s)
    \/ \E s \in Sources : ProbeAnswer(s)
    \/ \E s \in Sources : CollectAnswer(s)
    \/ GatherReturn
    \/ TimePasses

SpecParse == InitParse /\ [][NextParse]_vars

\* Each fetch terminates and the event loop runs every task that can run.
SpecParseFair ==
    /\ SpecParse
    /\ \A s \in Sources : WF_vars(AcquireSemaphore(s))
    /\ \A s \in Sources : WF_vars(ProbeAnswer(s))
    /\ \A s \in Sources : WF_vars(CollectAnswer(s))
    /\ WF_vars(GatherReturn)

(***************************************************************************)
(* Properties of parse_all_sources (SpecParse, SpecParseFair).             *)
(***************************************************************************)
InFlight == {s \in Sources : task[s] \in {"probing", "collecting"}}

\* C6: when parse_all_sources returns, a source whose fetch did not bring
\* items (it raised, its errors were swallowed by the strategy, its breaker
\* rejected the call, or it was unavailable) contributes no item and has a
\* failure counter recorded under its name, while every valid item of every
\* other source is in the returned list; the call returns normally whatever
\* subset of the sources failed.
C6_FailedSourcesIsolated ==
    ppc = "returned" =>
      /\ \A k \in 1..Len(validated_news) :
           /\ outcome[validated_news[k].source] = "ok"
           /\ validated_news[k].valid
      /\ \A s \in enabled :
           IF outcome[s] = "ok"
           THEN \A k \in 1..Len(task_result[s]) :
                  task_result[s][k].valid
                    => task_result[s][k] \in Range(validated_news)
           ELSE \E c \in FailureCounters : <<c, s>> \in counters

\* One source raised, another one's valid item was returned.
C6_Witness ==
    /\ ppc = "returned"
    /\ \E s, r \in enabled :
         /\ s < r
         /\ outcome[s] = "raised"
         /\ outcome[r] = "ok"
         /\ validated_news = <<Item(r, TRUE)>>

\* C7: at no moment are more than max_concurrent_sources sources being
\* fetched (probe or collection in progress).
C7_ConcurrencyCap == Cardinality(InFlight) <= max_concurrent_sources

\* The cap is reached while another source waits for a slot.
C7_Witness ==
    /\ ppc = "gathering"
    /\ Cardinality(InFlight) = max_concurrent_sources
    /\ \E s \in enabled : task[s] = "waiting"

\* C8: no source is probed or collected more than once per call; when the
\* call returns every enabled source has been fetched exactly once, no other
\* source has been fetched and every slot of the limiter is free again; and
\* a call that started eventually returns.
C8_EachSourceOnceAndCompletes ==
    /\ [](\A s \in Sources : requests[s].probe <= 1 /\ requests[s].collect <= 1)
    /\ [](ppc = "returned" =>
            /\ \A s \in Sources :
                 requests[s].probe = (IF s \in enabled THEN 1 ELSE 0)
            /\ enabled # {} => semaphore = max_concurrent_sources)
    /\ (ppc = "gathering" ~> ppc = "returned")

\* A call with more enabled sources than slots, one of them failing, has
\* returned.
C8_Witness ==
    /\ ppc = "returned"
    /\ Cardinality(enabled) > max_concurrent_sources
    /\ \E s \in enabled : outcome[s] = "raised"
    /\ \A s \in enabled : requests[s].probe = 1

\* C9: while the breaker of a source is OPEN and its recovery timeout has not
\* elapsed, no probe and no collection request of that source is in flight,
\* and a fetch the breaker cut short has sent no request and returned
\* nothing.
C9_OpenBreakerNoNetwork ==
    \A s \in Sources :
      /\ (circuit_breakers[s].state = OPEN
          /\ ~CB_TimeoutElapsed(circuit_breakers[s]))
           => s \notin InFlight
      /\ outcome[s] = "breaker_open"
           => task_result[s] = <<>> /\ requests[s] = NoRequests

(***************************************************************************)
(* One circuit breaker under concurrent callers (specification             *)
(* SpecBreaker).                                                           *)
(***************************************************************************)
InitBreaker ==
    /\ pc = "idle"
    /\ news = [i \in Ids |-> NoRow]
    /\ next_id = 1
    /\ max_news_per_run = 1
    /\ batch = <<>>
    /\ results = <<>>
    /\ health_probe = NoProbe
    /\ health_status = NoHealth
    /\ result = NoResult
    /\ events = NoEvents
    /\ calls = {}
    /\ lastCall = NoCall
    /\ delivered = [i \in Ids |-> "never"]
    /\ ParserConstructed(Sources, 1)
    /\ BreakerConstructed
    /\ RetryDecorated(DefaultRetryConfig)
    /\ ProcessorConstructed
    /\ BusConstructed
    /\ ApplicationCreated
    /\ NoFunctionCalled

\* call(operation): rejected with CircuitBreakerOpenError, or the operation
\* is started.
BreakerCall(c) ==
    /\ UNCHANGED notBreakerVars
    /\ caller[c].pc = "idle"
    /\ IF CB_Rejects(breaker)
       THEN /\ lastB' = [kind |-> "call", caller |-> c,
                         signal |-> "CircuitBreakerOpenError",
                         invoked |-> FALSE]
            /\ UNCHANGED <<breaker, caller>>
       ELSE /\ lastB' = [kind |-> "call", caller |-> c, signal |-> "none",
                         invoked |-> TRUE]
            /\ caller' = [caller EXCEPT ![c] =
                            [pc |-> "running", trial |-> CB_IsTrial(breaker)]]
            /\ breaker' = CB_Admit(breaker)
    /\ UNCHANGED consecutive

\* The operation of caller c returns or fails.
BreakerComplete(c) ==
    /\ UNCHANGED notBreakerVars
    /\ caller[c].pc = "running"
    /\ \E ok \in BOOLEAN :
         /\ breaker' = IF ok
                       THEN CB_OnSuccess(breaker, caller[c].trial)
                       ELSE CB_OnFailure(breaker, caller[c].trial)
         /\ consecutive' = IF ok THEN 0
                           ELSE Min(consecutive + 1, failure_threshold)
         /\ lastB' = [kind |-> IF ok THEN "success" ELSE "failure",
                      caller |-> c, signal |-> "none", invoked |-> FALSE]
    /\ caller' = [caller EXCEPT ![c] = NoCaller]

\* Time passes.
BreakerTimePasses ==
    /\ UNCHANGED notBreakerVars
    /\ breaker # CB_Tick(breaker)
    /\ breaker' = CB_Tick(breaker)
    /\ lastB' = NoBreakerStep
    /\ UNCHANGED <<caller, consecutive>>

NextBreaker ==
    \/ \E c \in Callers : BreakerCall(c)
    \/ \E c \in Callers : BreakerComplete(c)
    \/ BreakerTimePasses

SpecBreaker == InitBreaker /\ [][NextBreaker]_vars

\* C10: after failure_threshold consecutive failed calls the breaker has left
\* CLOSED for OPEN (or for the HALF_OPEN that follows it); a call made while
\* the breaker is OPEN and the timeout has not elapsed gets
\* CircuitBreakerOpenError and does not start the operation; a successful call
\* that finds the breaker CLOSED leaves it CLOSED with the failure count 0.
C10_BreakerOpensAndFailsFast ==
    /\ [](consecutive >= failure_threshold
            => breaker.state \in {OPEN, HALF_OPEN})
    /\ [][/\ (lastB'.kind = "call" /\ breaker.state = OPEN
              /\ breaker.since_failure < recovery_timeout)
               => /\ lastB'.signal = "CircuitBreakerOpenError"
                  /\ ~lastB'.invoked
                  /\ caller' = caller
                  /\ breaker' = breaker
          /\ (lastB'.kind = "success" /\ breaker.state = CLOSED)
               => breaker' = NewBreaker]_vars

\* Three failures in a row opened the breaker and the next call was rejected.
C10_Witness ==
    /\ breaker.state = OPEN
    /\ ~CB_TimeoutElapsed(breaker)
    /\ consecutive = failure_threshold
    /\ lastB.kind = "call"
    /\ lastB.signal = "CircuitBreakerOpenError"

Trials == {c \in Callers : caller[c].pc = "running" /\ caller[c].trial}

\* C11: the call that finds the breaker OPEN with the recovery timeout elapsed
\* is let through as the trial and puts the breaker in HALF_OPEN; while the
\* breaker is HALF_OPEN exactly one trial call is running and every other call
\* is rejected with CircuitBreakerOpenError without starting the operation;
\* the success of the trial closes the breaker with the failure count 0, its
\* failure reopens the breaker with the recovery time starting again.
C11_SingleHalfOpenTrial ==
    /\ [](Cardinality(Trials) = (IF breaker.state = HALF_OPEN THEN 1 ELSE 0))
    /\ [][/\ (lastB'.kind = "call" /\ breaker.state = HALF_OPEN)
               => /\ lastB'.signal = "CircuitBreakerOpenError"
                  /\ ~lastB'.invoked
                  /\ caller' = caller
                  /\ breaker' = breaker
          /\ (lastB'.kind = "call" /\ breaker.state = OPEN
              /\ breaker.since_failure >= recovery_timeout)
               => /\ lastB'.invoked
                  /\ breaker'.state = HALF_OPEN
                  /\ Trials' = {lastB'.caller}
          /\ (lastB'.kind = "success" /\ lastB'.caller \in Trials)
               => /\ breaker'.state = CLOSED
                  /\ breaker'.failure_count = 0
          /\ (lastB'.kind = "failure" /\ lastB'.caller \in Trials)
               => /\ breaker'.state = OPEN
                  /\ breaker'.since_failure = 0]_vars

\* While the trial call is running another caller was turned away.
C11_Witness ==
    /\ breaker.state = HALF_OPEN
    /\ lastB.kind = "call"
    /\ lastB.signal = "CircuitBreakerOpenError"
    /\ \E c \in Trials : c # lastB.caller

\* C12: a fetch whose request timed out or hit a connection error has been
\* attempted strategy_max_attempts times and has been counted as a failure by
\* the breaker of its source.
C12_TimeoutsRetriedAndCounted ==
    \A s \in Sources :
      outcome[s] = "swallowed"
        => /\ requests[s].collect = strategy_max_attempts
           /\ circuit_breakers[s].failure_count > 0

(***************************************************************************)
(* retry_async / retry_sync (core/retry.py 27-92, the two wrappers are the *)
(* same loop), specification SpecRetry.  One step is one pass of the loop: *)
(* the call of the wrapped function and what the handler does with its     *)
(* failure, the sleep included.                                            *)
(***************************************************************************)
\* The cycle orchestrator after construction, no cycle run.
PipelineConstructed ==
    /\ pc = "idle"
    /\ news = [i \in Ids |-> NoRow]
    /\ next_id = 1
    /\ max_news_per_run = 1
    /\ batch = <<>>
    /\ results = <<>>
    /\ health_probe = NoProbe
    /\ health_status = NoHealth
    /\ result = NoResult
    /\ events = NoEvents
    /\ calls = {}
    /\ lastCall = NoCall
    /\ delivered = [i \in Ids |-> "never"]

RECURSIVE Pow(_, _)
Pow(b, k) == IF k = 0 THEN 1 ELSE b * Pow(b, k - 1)

\* The RetryConfigs tried: max_attempts from 0, delays that stay under
\* max_delay and delays that reach it.
RetryConfigs ==
    [max_attempts : 0..MaxAttempts, base_delay : {1, 2}, max_delay : {3, 60},
     exponential_base : {1, 2}, jitter : BOOLEAN]

\* How one call of the wrapped function ends: it returns, it raises a failure
\* of one of config.exceptions, or it raises another failure.
FunctionAnswers == {"return", "retryable", "other"}

\* `except config.exceptions` (lines 37, 71).
catches_everything(kind) == TRUE

catches(kind) == kind = "retryable"

\* The loop goes on after the last attempt.
is_last_attempt_never(cfg, k) == FALSE

\* attempt == config.max_attempts - 1 (lines 40, 74).
is_last_attempt(cfg, k) == k = cfg.max_attempts - 1

\* A delay without the cap.
backoff_uncapped(cfg, k) == cfg.base_delay * Pow(cfg.exponential_base, k)

\* min(base_delay * exponential_base ** attempt, max_delay) (lines 44-47,
\* 78-81).
backoff(cfg, k) ==
    Min(cfg.base_delay * Pow(cfg.exponential_base, k), cfg.max_delay)

\* delay *= 0.5 + random.random() * 0.5 (lines 49-50, 83-84): any delay from
\* half of it up to it.
jittered(delay) == {d \in 0..delay : 2 * d >= delay}

\* raise last_exception with last_exception = None (line 55) is a TypeError.
raised(e) == IF e = None THEN [kind |-> "TypeError", attempt |-> 0] ELSE e

InitRetry ==
    /\ PipelineConstructed
    /\ ParserConstructed(Sources, 1)
    /\ BreakerConstructed
    /\ \E cfg \in RetryConfigs : RetryDecorated(cfg)
    /\ ProcessorConstructed
    /\ BusConstructed
    /\ ApplicationCreated
    /\ NoFunctionCalled

\* The decorated function is called (lines 30-34): an empty range leaves the
\* loop at once and line 55 raises last_exception.
RetryCall ==
    /\ UNCHANGED notRetryVars
    /\ rpc \in {"idle", "returned", "raised"}
    /\ attempt' = 0
    /\ invocations' = 0
    /\ sleeps' = <<>>
    /\ failures' = <<>>
    /\ last_exception' = None
    /\ IF retry_config.max_attempts > 0
       THEN /\ rpc' = "attempting"
            /\ retry_result' = NoRetryResult
       ELSE /\ rpc' = "raised"
            /\ retry_result' = [kind |-> "raise", failure |-> raised(None)]
    /\ UNCHANGED retry_config

\* One pass of the loop (lines 34-53).
RetryAttempt ==
    /\ UNCHANGED notRetryVars
    /\ rpc = "attempting"
    /\ invocations' = invocations + 1
    /\ \E answer \in FunctionAnswers :
         LET e == [kind |-> answer, attempt |-> attempt]
         IN  IF answer = "return"
             THEN /\ rpc' = "returned"
                  /\ retry_result' = [kind |-> "return", failure |-> None]
                  /\ UNCHANGED <<attempt, sleeps, failures, last_exception>>
             ELSE IF ~catches(answer)
             THEN /\ rpc' = "raised"
                  /\ retry_result' = [kind |-> "raise", failure |-> e]
                  /\ failures' = Append(failures, e)
                  /\ UNCHANGED <<attempt, sleeps, last_exception>>
             ELSE IF is_last_attempt(retry_config, attempt)
             THEN /\ rpc' = "raised"
                  /\ retry_result' = [kind |-> "raise", failure |-> e]
                  /\ failures' = Append(failures, e)
                  /\ last_exception' = e
                  /\ UNCHANGED <<attempt, sleeps>>
             ELSE /\ failures' = Append(failures, e)
                  /\ last_exception' = e
                  /\ \E delay \in IF retry_config.jitter
                                  THEN jittered(backoff(retry_config, attempt))
                                  ELSE {backoff(retry_config, attempt)} :
                       sleeps' = Append(sleeps, delay)
                  /\ attempt' = attempt + 1
                  /\ IF attempt + 1 < retry_config.max_attempts
                     THEN /\ rpc' = "attempting"
                          /\ UNCHANGED retry_result
                     ELSE /\ rpc' = "raised"
                          /\ retry_result' =
                               [kind |-> "raise", failure |-> raised(e)]
    /\ UNCHANGED retry_config

NextRetry ==
    \/ RetryCall
    \/ RetryAttempt

SpecRetry == InitRetry /\ [][NextRetry]_vars

(***************************************************************************)
(* Properties of the retry policy (specification SpecRetry).               *)
(***************************************************************************)
\* C13: with max_attempts >= 1 the wrapped function is never called more than
\* max_attempts times; a call that ends with a retryable failure has called
\* it exactly max_attempts times, has slept max_attempts - 1 times (1 then 2
\* seconds for max_attempts = 3, base_delay = 1, exponential_base = 2, no
\* jitter) and raises the failure of the last attempt itself; a call that
\* returned made no call of the function after the one that returned.
C13_ExactlyMaxAttempts ==
    retry_config.max_attempts >= 1 =>
      /\ invocations <= retry_config.max_attempts
      /\ (rpc = "raised" /\ retry_result.failure.kind = "retryable")
           => /\ invocations = retry_config.max_attempts
              /\ Len(sleeps) = retry_config.max_attempts - 1
              /\ retry_result.failure =
                   [kind |-> "retryable",
                    attempt |-> retry_config.max_attempts - 1]
              /\ retry_result.failure = failures[Len(failures)]
              /\ (/\ retry_config.max_attempts = 3
                  /\ retry_config.base_delay = 1
                  /\ retry_config.exponential_base = 2
                  /\ ~retry_config.jitter)
                   => sleeps = <<1, 2>>
      /\ rpc = "returned"
           => /\ invocations = Len(failures) + 1
              /\ retry_result.kind = "return"

\* Three failing attempts with delays 1 and 2, the third failure raised.
C13_Witness ==
    /\ rpc = "raised"
    /\ retry_config.max_attempts = 3
    /\ invocations = 3
    /\ sleeps = <<1, 2>>
    /\ retry_result.failure = [kind |-> "retryable", attempt |-> 2]

\* C14 (as stated): without jitter, the delay slept before attempt k, counted
\* from 0, is min(base_delay * exponential_base^k, max_delay).
C14_DelayBeforeAttemptK ==
    ~retry_config.jitter =>
      \A k \in 1..Len(sleeps) :
        sleeps[k] = Min(retry_config.base_delay
                        * Pow(retry_config.exponential_base, k),
                        retry_config.max_delay)

\* C14 (amended): without jitter, the delay slept after the failure of attempt
\* k, counted from 0, that is before attempt k + 1, is
\* min(base_delay * exponential_base^k, max_delay); no delay exceeds max_delay.
C14_DelayAfterAttemptK ==
    /\ \A j \in 1..Len(sleeps) : sleeps[j] <= retry_config.max_delay
    /\ ~retry_config.jitter =>
         \A j \in 1..Len(sleeps) :
           LET k == j - 1
               d == retry_config.base_delay
                    * Pow(retry_config.exponential_base, k)
           IN  sleeps[j] = IF d <= retry_config.max_delay
                           THEN d
                           ELSE retry_config.max_delay

\* Two delays without jitter, the second one cut down to max_delay.
C14_Witness ==
    /\ ~retry_config.jitter
    /\ Len(sleeps) = 2
    /\ sleeps[1] = retry_config.base_delay
    /\ sleeps[1] < retry_config.max_delay
    /\ sleeps[2] = retry_config.max_delay
    /\ retry_config.base_delay * retry_config.exponential_base
         > retry_config.max_delay

\* C15: a failure that is not one of config.exceptions ends the call at the
\* attempt that raised it: it is the last failure the function raised, no
\* delay is slept after it, the function is not called again, and the caller
\* gets this very failure; raised by the first attempt it means one call of
\* the function and no delay at all.
C15_NonRetryablePropagates ==
    \A k \in 1..Len(failures) :
      failures[k].kind = "other"
        => /\ k = Len(failures)
           /\ rpc = "raised"
           /\ retry_result = [kind |-> "raise", failure |-> failures[k]]
           /\ failures[k].attempt = k - 1
           /\ invocations = k
           /\ Len(sleeps) = k - 1

\* The first attempt raised a failure outside config.exceptions although more
\* attempts were allowed.
C15_Witness ==
    /\ rpc = "raised"
    /\ retry_config.max_attempts >= 2
    /\ invocations = 1
    /\ sleeps = <<>>
    /\ retry_result.failure = [kind |-> "other", attempt |-> 0]

(***************************************************************************)
(* GigaChatContentProcessor.process_content (specification SpecTransform). *)
(* process_content calls _process_with_gigachat through the breaker (line  *)
(* 79); _process_with_gigachat and _get_access_token are each wrapped by   *)
(* smart_retry (lines 104, 206).  The calls of one processor follow one    *)
(* another.  "retryable" is aiohttp.ClientError or asyncio.TimeoutError,   *)
(* "other" is any other exception.                                         *)
(***************************************************************************)
\* @smart_retry(max_attempts=2, base_delay=2.0, ...) (line 104).
GigaChatRetry ==
    [max_attempts |-> 2, base_delay |-> 2, max_delay |-> 60,
     exponential_base |-> 2, jitter |-> TRUE]

\* @smart_retry(max_attempts=3, base_delay=1.0, ...) (line 206).
TokenRetry ==
    [max_attempts |-> 3, base_delay |-> 1, max_delay |-> 60,
     exponential_base |-> 2, jitter |-> TRUE]

\* What the provider answers to a token request: 200 with a token, another
\* status, or no answer (connection error, timeout).
TokenAnswers == {"200", "status", "network"}

\* What the provider answers to a chat request: 200 with a text, 200 with a
\* text that is a refusal, 200 without text, 401, 429, another status, or no
\* answer.
ChatAnswers == {"200", "blocked", "empty", "401", "429", "status", "network"}

\* _create_alternative_rephrasing (lines 340-355) from the title and the
\* content as _simple_rephrase_title / _simple_rephrase_content left them
\* (either can be empty); the handler of line 353 builds the same two lines.
\* The two labels are written in Latin letters here.
_create_alternative_rephrasing(rephrased_title, rephrased_content) ==
    <<"Zagolovok: ">> \o rephrased_title \o <<"\n", "Tekst: ">>
        \o rephrased_content

\* What process_content returned for an item, as a string: the provider's
\* stripped text (not blank, lines 189-195) or the alternative rendering;
\* <<>> when it returned nothing.
returned_text(res, item) ==
    CASE res = "text" -> <<"t">>
      [] res = "alternative" ->
           _create_alternative_rephrasing(item.title, item.content)
      [] OTHER -> <<>>

\* _is_token_valid (lines 241-248).
_is_token_valid(ti) == ti.access_token # 0 /\ ~ti.expired

\* The processor as one record.
TState ==
    [tpc |-> tpc, token_info |-> token_info, next_token |-> next_token,
     rejected |-> rejected, tbreaker |-> tbreaker, tattempt |-> tattempt,
     token_attempt |-> token_attempt, used_token |-> used_token,
     chat_requests |-> chat_requests, token_requests |-> token_requests,
     tsleeps |-> tsleeps, tanswer |-> tanswer, tresult |-> tresult,
     tconsecutive |-> tconsecutive]

SetT(s) ==
    /\ tpc' = s.tpc
    /\ token_info' = s.token_info
    /\ next_token' = s.next_token
    /\ rejected' = s.rejected
    /\ tbreaker' = s.tbreaker
    /\ tattempt' = s.tattempt
    /\ token_attempt' = s.token_attempt
    /\ used_token' = s.used_token
    /\ chat_requests' = s.chat_requests
    /\ token_requests' = s.token_requests
    /\ tsleeps' = s.tsleeps
    /\ tanswer' = s.tanswer
    /\ tresult' = s.tresult
    /\ tconsecutive' = s.tconsecutive

\* The chat request goes out with the token at hand (lines 162-183).
send_chat(s) ==
    [s EXCEPT !.tpc = "chat", !.used_token = s.token_info.access_token,
              !.chat_requests = @ + 1]

\* One attempt of _process_with_gigachat begins (lines 105-108, 207-224): the
\* cached token is used while it is valid, otherwise a token is requested.
begin_attempt(s) ==
    IF _is_token_valid(s.token_info)
    THEN send_chat([s EXCEPT !.token_attempt = 0])
    ELSE [s EXCEPT !.tpc = "token", !.token_attempt = 0,
                   !.token_requests = @ + 1]

\* circuit_breaker.call is over and process_content returns (lines 79-97): the
\* text, or the alternative rendering.
end_guarded(s, ok, res) ==
    LET trial == s.tbreaker.state = HALF_OPEN
    IN  [s EXCEPT !.tpc = "done",
                  !.tbreaker = IF ok THEN CB_OnSuccess(@, trial)
                               ELSE CB_OnFailure(@, trial),
                  !.tconsecutive = IF ok THEN 0
                                   ELSE Min(@ + 1, failure_threshold),
                  !.tresult = res]

\* A process_content without the handler of lines 91-93: the failure that
\* leaves the retry reaches the caller.
fail_propagates(s, kind, delay) ==
    IF catches(kind) /\ ~is_last_attempt(GigaChatRetry, s.tattempt)
    THEN begin_attempt([s EXCEPT !.tsleeps = Append(@, delay),
                                 !.tattempt = @ + 1])
    ELSE end_guarded(s, FALSE, "raised")

\* An attempt of _process_with_gigachat raised a failure of this kind: the
\* retry of line 104 sleeps and tries again, or lets the failure out, which
\* process_content catches (lines 91-97).
fail(s, kind, delay) ==
    IF catches(kind) /\ ~is_last_attempt(GigaChatRetry, s.tattempt)
    THEN begin_attempt([s EXCEPT !.tsleeps = Append(@, delay),
                                 !.tattempt = @ + 1])
    ELSE end_guarded(s, FALSE, "alternative")

\* A 401 that leaves the cached token in place.
on_401_keeps_token(s) == [s EXCEPT !.rejected = @ \cup {s.used_token}]

\* Status 401 (lines 198-200): the cached token is dropped.
on_401(s) ==
    [s EXCEPT !.token_info = NoToken, !.rejected = @ \cup {s.used_token}]

InitTransform ==
    /\ PipelineConstructed
    /\ ParserConstructed(Sources, 1)
    /\ BreakerConstructed
    /\ RetryDecorated(DefaultRetryConfig)
    /\ ProcessorConstructed
    /\ BusConstructed
    /\ ApplicationCreated
    /\ NoFunctionCalled

\* process_content is called (lines 69-79): a sensitive item gets the
\* alternative rendering at once; otherwise the breaker rejects the call or
\* lets _process_with_gigachat start.
TransformCall ==
    /\ UNCHANGED notTransformVars
    /\ tpc \in {"idle", "done"}
    /\ \E sensitive \in BOOLEAN :
         LET s == [TState EXCEPT !.tattempt = 0, !.token_attempt = 0,
                                 !.chat_requests = 0, !.token_requests = 0,
                                 !.tsleeps = <<>>, !.tanswer = "none",
                                 !.tresult = "none"]
         IN  SetT(IF sensitive
                  THEN [s EXCEPT !.tpc = "done", !.tresult = "alternative",
                                 !.tanswer = "sensitive"]
                  ELSE IF CB_Rejects(tbreaker)
                  THEN [s EXCEPT !.tpc = "done", !.tresult = "alternative",
                                 !.tanswer = "breaker_open"]
                  ELSE begin_attempt([s EXCEPT !.tbreaker = CB_Admit(@)]))

\* The token request is answered (lines 219-239).
TokenAnswer ==
    /\ UNCHANGED notTransformVars
    /\ tpc = "token"
    /\ \E answer \in TokenAnswers :
       \E d1 \in jittered(backoff(TokenRetry, token_attempt)) :
       \E d2 \in jittered(backoff(GigaChatRetry, tattempt)) :
         LET s == [TState EXCEPT !.tanswer = "token " \o answer]
         IN  CASE answer = "200" ->
                    /\ next_token <= MaxTokens
                    /\ SetT(send_chat(
                         [s EXCEPT !.token_info =
                                     [access_token |-> next_token,
                                      expired |-> FALSE],
                                   !.next_token = @ + 1]))
               [] answer = "status" -> SetT(fail(s, "other", d2))
               [] OTHER ->
                    IF ~is_last_attempt(TokenRetry, token_attempt)
                    THEN SetT([s EXCEPT !.tsleeps = Append(@, d1),
                                        !.token_attempt = @ + 1,
                                        !.token_requests = @ + 1])
                    ELSE SetT(fail(s, "retryable", d2))

\* The chat request is answered (lines 183-204).
ChatAnswer ==
    /\ UNCHANGED notTransformVars
    /\ tpc = "chat"
    /\ \E answer \in ChatAnswers :
       \E d2 \in jittered(backoff(GigaChatRetry, tattempt)) :
         LET s == [TState EXCEPT !.tanswer = answer]
         IN  SetT(CASE answer = "200" -> end_guarded(s, TRUE, "text")
                    [] answer = "blocked" -> end_guarded(s, TRUE, "alternative")
                    [] answer = "401" -> fail(on_401(s), "other", d2)
                    [] answer = "network" -> fail(s, "retryable", d2)
                    [] OTHER -> fail(s, "other", d2))

\* The cached token comes within a minute of its expiry (line 248).
TokenExpires ==
    /\ UNCHANGED notTransformVars
    /\ _is_token_valid(token_info)
    /\ SetT([TState EXCEPT !.token_info.expired = TRUE])

\* Time passes.
TransformTimePasses ==
    /\ UNCHANGED notTransformVars
    /\ tbreaker # CB_Tick(tbreaker)
    /\ SetT([TState EXCEPT !.tbreaker = CB_Tick(@)])

NextTransform ==
    \/ TransformCall
    \/ TokenAnswer
    \/ ChatAnswer
    \/ TokenExpires
    \/ TransformTimePasses

SpecTransform == InitTransform /\ [][NextTransform]_vars

(***************************************************************************)
(* Properties of the transformer (specification SpecTransform).            *)
(***************************************************************************)
\* C16: a process_content call whose last answer from the provider was 429
\* has used up the attempts of the retry around _process_with_gigachat, and
\* the breaker has counted the failure.
C16_ThrottlingRetried ==
    (tpc = "done" /\ tanswer = "429")
      => /\ tattempt = GigaChatRetry.max_attempts - 1
         /\ tbreaker.failure_count > 0

\* C17: a 401 ends the call at once (no delay, no further request), the
\* breaker counts it as one failure, the cached token is dropped, the next
\* call that reaches the provider starts with a token request, and no chat
\* request is ever sent with a token the provider answered 401 to.
C17_RejectedTokenDropped ==
    /\ []((tpc = "done" /\ tanswer = "401")
            => token_info = NoToken /\ tresult = "alternative")
    /\ [](tpc = "chat" => used_token \notin rejected)
    /\ [](tbreaker.state = CLOSED => tbreaker.failure_count = tconsecutive)
    /\ [][/\ (tpc = "chat" /\ tanswer' = "401")
               => /\ tpc' = "done"
                  /\ tsleeps' = tsleeps
                  /\ chat_requests' = chat_requests
                  /\ token_requests' = token_requests
                  /\ tconsecutive' = Min(tconsecutive + 1, failure_threshold)
          /\ (tpc = "done" /\ tanswer = "401" /\ tpc' # "done")
               => /\ tpc' = "token"
                  /\ token_requests' = 1
                  /\ chat_requests' = 0]_vars

\* After a 401 a chat request went out with a newly issued token.
C17_Witness ==
    /\ tpc = "chat"
    /\ rejected # {}
    /\ used_token # 0
    /\ used_token \notin rejected
    /\ token_info.access_token = used_token
    /\ tconsecutive >= 1

(***************************************************************************)
(* The ingest stage item by item (specification SpecIngest):               *)
(* _parse_and_save_news with one step per iteration of its loop.  batch    *)
(* holds the parsed items still to save; lastCall describes the save_news  *)
(* call of the last step.                                                  *)
(***************************************************************************)
InitIngest ==
    /\ pc = "parse"
    /\ news = [i \in Ids |-> NoRow]
    /\ next_id = 1
    /\ max_news_per_run = 1
    /\ batch = <<>>
    /\ results = <<>>
    /\ health_probe = NoProbe
    /\ health_status = NoHealth
    /\ result = NoResult
    /\ events = NoEvents
    /\ calls = {}
    /\ lastCall = NoCall
    /\ delivered = [i \in Ids |-> "never"]
    /\ ParserConstructed(Sources, 1)
    /\ BreakerConstructed
    /\ RetryDecorated(DefaultRetryConfig)
    /\ ProcessorConstructed
    /\ BusConstructed
    /\ ApplicationCreated
    /\ NoFunctionCalled

\* The candidate items, the first article mirrored under another URL, and
\* another article under that URL.
IngestItems ==
    Items \cup
    { [title |-> <<"a">>, content |-> <<"b", "c">>, url |-> "u2"],
      [title |-> <<"f">>, content |-> <<"g">>,      url |-> "u2"] }

\* What one parse_all_sources call can return to the ingest stage.
IngestBatches ==
    {<<>>} \cup {<<x>> : x \in IngestItems}
           \cup {<<x, y>> : x, y \in IngestItems}

\* parse_all_sources returns the validated items or raises (lines 150-156);
\* with nothing to save the stage returns 0.
IngestBegin ==
    /\ UNCHANGED notPipelineVars
    /\ pc = "parse"
    /\ \E parser_ok \in BOOLEAN, news_items \in IngestBatches :
         /\ parser_ok \/ news_items = <<>>
         /\ batch' = news_items
         /\ pc' = IF news_items = <<>> THEN "saved" ELSE "save_item"
    /\ events' = NoEvents
    /\ calls' = {"fetch"}
    /\ lastCall' = NoCall
    /\ UNCHANGED <<news, next_id, max_news_per_run, results, health_probe,
                   health_status, result, delivered>>

\* One iteration of the loop (lines 160-172): save_news, and the event when
\* it returned an id.
IngestItem ==
    /\ UNCHANGED notStorageVars
    /\ pc = "save_item"
    /\ batch # <<>>
    /\ \E storage_ok \in BOOLEAN :
         LET item == Head(batch)
             r == save_news(news, next_id, item, storage_ok)
         IN  /\ r.next_id <= MaxIds + 1
             /\ news' = r.table
             /\ seen' = seen \cup Inserted(r.table)
             /\ next_id' = r.next_id
             /\ events' = IF r.id # 0 THEN publish(events, "news.parsed")
                          ELSE events
             /\ lastCall' = [kind |-> "save", ids |-> {r.id} \ {0},
                             item |-> item, storage_ok |-> storage_ok]
    /\ calls' = calls \cup {"save"}
    /\ batch' = Tail(batch)
    /\ pc' = IF Tail(batch) = <<>> THEN "saved" ELSE "save_item"
    /\ UNCHANGED <<max_news_per_run, results, health_probe, health_status,
                   result, delivered>>

\* The stage returns saved_count (lines 174-177); the next cycle's ingest
\* stage finds the table as this one left it.
IngestReturn ==
    /\ UNCHANGED notPipelineVars
    /\ pc = "saved"
    /\ pc' = "parse"
    /\ lastCall' = NoCall
    /\ UNCHANGED <<news, next_id, max_news_per_run, batch, results,
                   health_probe, health_status, result, events, calls,
                   delivered>>

NextIngest ==
    \/ IngestBegin
    \/ IngestItem
    \/ IngestReturn

SpecIngest == InitIngest /\ [][NextIngest]_vars

(***************************************************************************)
(* Properties of the ingest stage (specification SpecIngest).              *)
(***************************************************************************)
\* The rows of `table` that hold the article of `item`.
RowsOf(table, item) ==
    {i \in Live(table) :
        table[i].original_hash = _generate_content_hash(item.title, item.content)}

\* The save_news call of one step persisted its item: one new row, status
\* parsed, the only row of that article, and one more 'news.parsed' event.
PersistedOnce ==
    /\ Cardinality(Live(news') \ Live(news)) = 1
    /\ \A i \in Live(news') \ Live(news) :
         /\ news'[i].status = PARSED
         /\ RowsOf(news', lastCall'.item) = {i}
         /\ lastCall'.ids = {i}
    /\ \A i \in Live(news) : news'[i] = news[i]
    /\ events' = publish(events, "news.parsed")

\* The save_news call of one step persisted and announced nothing.
NothingPersisted ==
    /\ news' = news
    /\ events' = events
    /\ lastCall'.ids = {}

\* 'news.parsed' events of the stage so far = rows the stage added so far.
EventsMatchRows ==
    events'["news.parsed"] - events["news.parsed"]
      = Cardinality(Live(news') \ Live(news))

\* C18 (as stated): every item the Deduplication Gate does not reject is
\* persisted exactly once as parsed with exactly one 'news.parsed' event; a
\* duplicate is neither persisted nor announced; events = newly persisted.
C18_NonDuplicatesPersistedOnce ==
    [][lastCall'.kind = "save"
         => /\ IF news_exists(news, lastCall'.item)
               THEN NothingPersisted
               ELSE PersistedOnce
            /\ EventsMatchRows]_vars

\* C18 (amended): the same for the items whose save_news call met no storage
\* error; an item whose call met one is neither persisted nor announced.
C18_SavedNonDuplicatesPersistedOnce ==
    /\ [][lastCall'.kind = "save"
            => /\ IF lastCall'.storage_ok /\ ~news_exists(news, lastCall'.item)
                  THEN PersistedOnce
                  ELSE NothingPersisted
               /\ EventsMatchRows]_vars
    /\ [](\A i, j \in Live(news) :
            news[i].original_hash = news[j].original_hash => i = j)
    /\ [](pc \in {"save_item", "saved"}
            => events["news.parsed"] <= Cardinality(Live(news)))

\* In one stage an item was persisted and announced, and the save_news call
\* of the last step then rejected a duplicate without a storage error.
C18_Witness ==
    /\ lastCall.kind = "save"
    /\ lastCall.storage_ok
    /\ lastCall.ids = {}
    /\ news_exists(news, lastCall.item)
    /\ events["news.parsed"] = 1
    /\ Cardinality(Live(news)) = 2

(***************************************************************************)
(* Properties of the transform stage (specification Spec).                 *)
(***************************************************************************)
\* The step is the read of _process_news_content.
ReadsUnprocessed == pc = "process" /\ pc' # "process"

\* What the stage took is at most max_news_per_run parsed rows, in ascending
\* age, and every parsed row it left out is younger than every row it took.
TakesOldestFirst ==
    /\ Len(batch') <= max_news_per_run
    /\ \A k \in 1..Len(batch') : news[batch'[k]].status = PARSED
    /\ \A k, l \in 1..Len(batch') : k < l => batch'[k] < batch'[l]
    /\ \A i \in Range(batch'), j \in Ids :
         (news[j].status = PARSED /\ j \notin Range(batch')) => i < j

\* The row of the item the last step called the transformer for shows the
\* outcome of the call: processed with the text, or failed without.
OutcomeStored(i) ==
    IF lastCall'.answer = "text"
    THEN /\ news'[i].status = PROCESSED
         /\ news'[i].rephrased_content = "text"
    ELSE /\ news'[i].status = FAILED
         /\ news'[i].rephrased_content = news[i].rephrased_content

C21_DeliveryOutcomesPersisted ==
    [][/\ lastCall'.kind = "deliver"
            => /\ Cardinality(lastCall'.ids) <= SendLimit
               /\ \A i \in lastCall'.ids : news[i].status = PROCESSED
       /\ (pc = "update_results" /\ results # <<>> /\ results' = Tail(results))
            => LET r == Head(results)
                   became_sent == /\ news[r.news_id].status # SENT
                                  /\ news'[r.news_id].status = SENT
               IN  /\ IF r.success
                      THEN /\ news'[r.news_id].status = SENT
                           /\ news'[r.news_id].telegram_message_id = r.message_id
                      ELSE news'[r.news_id].status = FAILED
                   /\ events'["news.sent"] - events["news.sent"]
                        = IF became_sent THEN 1 ELSE 0]_vars

(***************************************************************************)
(* Properties of the cleanup step (specification Spec).                    *)
(***************************************************************************)
\* C22: a row is deleted only by the cleanup step of a cycle whose health
\* gate passed and whose current hour is the cleanup hour; that step deletes
\* only rows that are sent and older than the retention window, and leaves
\* every other row as it was.
C22_CleanupDeletesOnlyOldSent ==
    /\ [][/\ (\E i \in Ids : news[i] # NoRow /\ news'[i] = NoRow)
               => pc = "cleanup" /\ lastCall'.kind = "cleanup"
          /\ lastCall'.kind = "cleanup"
               => /\ lastCall'.hour = cleanup_hour
                  /\ health_status.overall
                  /\ "cleanup" \in calls'
                  /\ \A i \in Ids :
                       IF news[i].status = SENT /\ i \in lastCall'.ids
                       THEN news'[i] \in {NoRow, news[i]}
                       ELSE news'[i] = news[i]
          /\ (pc = "cleanup" /\ lastCall'.kind # "cleanup")
               => /\ lastCall'.hour # cleanup_hour
                  /\ news' = news
                  /\ calls' = calls]_vars
    /\ []("cleanup" \in calls => health_status.overall)

\* The cleanup step deleted the old sent row 1 and kept row 2, as old but
\* failed.
C22_Witness ==
    /\ lastCall.kind = "cleanup"
    /\ next_id = 3
    /\ news[1] = NoRow
    /\ 2 \in lastCall.ids
    /\ news[2].status = FAILED

(***************************************************************************)
(* Propagation of failures in the cycle (specification Spec).              *)
(***************************************************************************)
\* Where run_full_cycle can be after a step taken at position p of a stage.
LaterStages(p) ==
    CASE p = "parse"          -> {"process"}
      [] p = "process"        -> {"process_item", "send"}
      [] p = "process_item"   -> {"process_item", "send"}
      [] p = "send"           -> {"send_multiple", "cleanup"}
      [] p = "send_multiple"  -> {"update_results"}
      [] p = "update_results" -> {"update_results", "cleanup"}
      [] p = "cleanup"        -> {"stats"}
      [] OTHER                -> {}

StagePositions ==
    {"parse", "process", "process_item", "send", "send_multiple",
     "update_results", "cleanup"}

\* C23: whatever fails inside the fetch, save, transform, deliver or cleanup
\* stage, the step leaves the cycle without a result and in a later stage, so
\* every later stage runs; a result with success=false is only produced by
\* the health gate or by the top-level handler of run_full_cycle.
C23_LocalFailuresDoNotFailCycle ==
    /\ [][/\ pc \in StagePositions
               => /\ pc' \in LaterStages(pc)
                  /\ result' = NoResult
                  /\ events'["error.occurred"] = 0
          /\ (result' # result /\ ~result'.success /\ result'.kind # "none")
               => \/ /\ pc = "health"
                     /\ ~health_status'.overall
                     /\ result'.errors = <<HealthFailedMsg>>
                  \/ /\ pc = "stats"
                     /\ result'.errors = <<CriticalMsg>>]_vars
    /\ [](pc = "stats" => health_status.overall /\ "fetch" \in calls)

\* A cycle in which every transformer call failed went through the later
\* stages and returned success.
C23_Witness ==
    /\ pc = "idle"
    /\ result.kind = "returned"
    /\ result.success
    /\ "transform" \in calls
    /\ events["news.processed"] = 0
    /\ \E i \in Ids : news[i].status = FAILED

(***************************************************************************)
(* The fallback of process_content (specification SpecTransform).          *)
(***************************************************************************)
\* Items whose title or content is empty, next to the candidate items.
AnyItems ==
    Items \cup {[title |-> <<>>, content |-> <<>>, url |-> ""]}

\* C24: every process_content call that has returned did not raise and
\* returned a non-empty text for every item: after a failed provider, a blocked
\* answer or a rejecting breaker it is the alternative rendering, so the
\* stage's `if rephrased_content:` holds and the item is not marked failed.
C24_AlwaysReturnsText ==
    /\ tresult # "raised"
    /\ tpc = "done"
         => /\ tresult \in {"text", "alternative"}
            /\ \A item \in AnyItems : returned_text(tresult, item) # <<>>
            /\ tanswer # "200" => tresult = "alternative"

\* A call rejected by the open breaker returned the alternative rendering.
C24_Witness ==
    /\ tpc = "done"
    /\ tanswer = "breaker_open"
    /\ tbreaker.state = OPEN
    /\ tresult = "alternative"

(***************************************************************************)
(* The Deduplication Gate (specification SpecIngest).                      *)
(***************************************************************************)
\* A stored row has the fingerprint of the item.
FingerprintStored(table, item) ==
    \E i \in Live(table) :
        table[i].original_hash = _generate_content_hash(item.title, item.content)

\* The item has a URL and a stored row has it.
UrlStored(table, item) ==
    item.url # "" /\ \E i \in Live(table) : table[i].url = item.url

\* C25: news_exists answers duplicate exactly when a stored row has the
\* item's fingerprint or the item's non-empty URL, and a save_news call that
\* met no storage error persists the item exactly when it is no duplicate.
C25_DuplicateIffFingerprintOrUrl ==
    [][(lastCall'.kind = "save" /\ lastCall'.storage_ok)
          => LET item == lastCall'.item
                 duplicate == FingerprintStored(news, item) \/ UrlStored(news, item)
             IN  /\ news_exists(news, item) <=> duplicate
                 /\ (lastCall'.ids = {}) <=> duplicate
                 /\ (news' = news) <=> duplicate]_vars

\* With two rows stored, an item with new content under the URL of a stored
\* row was rejected.
C25_Witness ==
    /\ lastCall.kind = "save"
    /\ lastCall.storage_ok
    /\ lastCall.ids = {}
    /\ ~FingerprintStored(news, lastCall.item)
    /\ UrlStored(news, lastCall.item)
    /\ Cardinality(Live(news)) = 2

(***************************************************************************)
(* _generate_content_hash on its own (specification SpecFingerprint):      *)
(* the fingerprints of two items.  The digest is taken as collision-free,  *)
(* so a fingerprint is the string the digest is computed from.             *)
(***************************************************************************)
Chars == {" ", "a"}

Texts(n) == UNION {[1..k -> Chars] : k \in 0..n}

\* The title and the content of an item.
Contents == [title : Texts(MaxTitleLen), content : Texts(MaxContentLen)]

InitFingerprint ==
    /\ PipelineConstructed
    /\ ParserConstructed(Sources, 1)
    /\ BreakerConstructed
    /\ RetryDecorated(DefaultRetryConfig)
    /\ ProcessorConstructed
    /\ BusConstructed
    /\ ApplicationCreated
    /\ arguments \in [a : Contents, b : Contents]
    /\ returned = NoReturn

\* The fingerprints of the two items are computed (lines 87-89).
GenerateContentHashes ==
    /\ UNCHANGED notFunctionVars
    /\ returned = NoReturn
    /\ returned' =
         [kind |-> "hashes",
          a |-> _generate_content_hash(arguments.a.title, arguments.a.content),
          b |-> _generate_content_hash(arguments.b.title, arguments.b.content)]
    /\ UNCHANGED arguments

NextFingerprint == GenerateContentHashes

SpecFingerprint == InitFingerprint /\ [][NextFingerprint]_vars

(***************************************************************************)
(* Properties of the fingerprint (specification SpecFingerprint).          *)
(***************************************************************************)
\* The (trimmed title, trimmed content) pair of an item.
TrimmedPair(x) == <<Strip(x.title), Strip(x.content)>>

\* A text with its whitespace taken out.
WithoutWhitespace(t) == SelectSeq(t, LAMBDA c : c # " ")

\* C26: two items whose (trimmed title, trimmed content) pairs differ have
\* different fingerprints.
C26_DistinctContentDistinctFingerprint ==
    (returned.kind = "hashes"
       /\ TrimmedPair(arguments.a) # TrimmedPair(arguments.b))
      => returned.a # returned.b

\* C27 (as stated): two items whose titles and whose contents differ only in
\* whitespace have the same fingerprint.
C27_WhitespaceInsensitive ==
    (returned.kind = "hashes"
       /\ WithoutWhitespace(arguments.a.title)
            = WithoutWhitespace(arguments.b.title)
       /\ WithoutWhitespace(arguments.a.content)
            = WithoutWhitespace(arguments.b.content))
      => returned.a = returned.b

\* C27 (amended): the fingerprint is a function of the trimmed title and the
\* trimmed content alone, so two items whose titles and whose contents differ
\* only in leading and trailing whitespace have the same fingerprint.
C27_SurroundingWhitespaceInsensitive ==
    returned.kind = "hashes"
      => /\ returned.a = _generate_content_hash(Strip(arguments.a.title),
                                                Strip(arguments.a.content))
         /\ TrimmedPair(arguments.a) = TrimmedPair(arguments.b)
              => returned.a = returned.b

\* Two items that differ in surrounding whitespace of the title and of the
\* content got the same fingerprint.
C27_Witness ==
    /\ returned.kind = "hashes"
    /\ arguments.a.title # arguments.b.title
    /\ arguments.a.content # arguments.b.content
    /\ Strip(arguments.a.title) # <<>>
    /\ Strip(arguments.a.content) # <<>>
    /\ TrimmedPair(arguments.a) = TrimmedPair(arguments.b)
    /\ returned.a = returned.b

(***************************************************************************)
(* The list parse_all_sources returns (specification SpecParse).           *)
(***************************************************************************)
\* C28: the list parse_all_sources returned never holds two items with the
\* same content fingerprint.
C28_BatchHasNoDuplicateContent ==
    ppc = "returned"
      => \A k, l \in 1..Len(validated_news) :
           (_generate_content_hash(validated_news[k].title,
                                   validated_news[k].content)
              = _generate_content_hash(validated_news[l].title,
                                       validated_news[l].content))
             => k = l

(***************************************************************************)
(* The reachability probe (specification SpecParse).                       *)
(***************************************************************************)
\* C29: the step in which the probe of a source fails leaves the source with
\* an empty result, no request of the collector, its breaker as it was, and
\* only the availability counter incremented; until the call returns the
\* source has no collector request and no source-failure or parse-failure
\* counter, and it is counted among the successful sources.
C29_UnreachableSourceSkipped ==
    /\ [][\A s \in Sources :
            (outcome[s] # "unavailable" /\ outcome'[s] = "unavailable")
              => /\ task_result'[s] = <<>>
                 /\ task'[s] = "done"
                 /\ requests'[s] = requests[s]
                 /\ circuit_breakers'[s] = circuit_breakers[s]
                 /\ counters' \ counters
                      \subseteq {<<"parser.availability_check_failed", s>>}]_vars
    /\ [](\A s \in Sources :
            outcome[s] = "unavailable"
              => /\ requests[s].collect = 0
                 /\ task_result[s] = <<>>
                 /\ <<"parser.source_error", s>> \notin counters
                 /\ <<"parser.source_failed", s>> \notin counters
                 /\ <<"parsing.error", s>> \notin counters
                 /\ ppc = "returned"
                      => <<"parser.source_success", s>> \in counters)

\* A source that failed twice before is found unreachable; the call returned
\* and its breaker still counts two failures.
C29_Witness ==
    \E s \in Sources :
        /\ ppc = "returned"
        /\ outcome[s] = "unavailable"
        /\ circuit_breakers[s].state = CLOSED
        /\ circuit_breakers[s].failure_count = 2

(***************************************************************************)
(* RegionKeywordValidator.validate on its own (specification               *)
(* SpecValidate).  A text is the set of the words of a small vocabulary    *)
(* that occur in the title or the content; `x in text` is the substring    *)
(* test of Python.  The words stand for: Saratov (written with a capital), *)
(* balakovo (a town), pugachev (a town and a surname), pugacheva (the      *)
(* surname in another case), engels (a town and a surname), gorod          *)
(* ("town"), koncert ("concert"), filosof ("philosopher"), moskva and      *)
(* pogoda ("weather").                                                     *)
(***************************************************************************)
Words ==
    {"Saratov", "balakovo", "pugachev", "pugacheva", "engels", "gorod",
     "koncert", "filosof", "moskva", "pogoda"}

\* str.lower() of a word.
lower(w) == IF w = "Saratov" THEN "saratov" ELSE w

\* The strings of interest that are substrings of a lower-case word.
substrings(w) == IF w = "pugacheva" THEN {"pugachev", "pugacheva"} ELSE {w}

\* text = f"{news.title} {news.content}".lower() (line 93), as the set of the
\* strings of interest it contains.
lowered_text(words) == UNION {substrings(lower(w)) : w \in words}

\* self.ambiguous_keywords (lines 77-90), for the ambiguous keywords of the
\* vocabulary: the keys, and the two context lists of each key.
ambiguous_keywords == {"pugachev", "engels"}

geographic_context(keyword) == {"gorod"}

person_context(keyword) ==
    IF keyword = "pugachev" THEN {"pugacheva", "koncert"} ELSE {"filosof"}

\* The regional words of line 134: each of them contains the first.
regional_words == {"saratov"}

\* A validator that takes every keyword found as a regional match.
_is_valid_regional_keyword_always(keyword, text) == TRUE

\* A disambiguation that lets a geographic word outweigh a person word.
_is_valid_regional_keyword_geo_first(keyword, text) ==
    \/ keyword \notin ambiguous_keywords
    \/ \E geo_word \in geographic_context(keyword) : geo_word \in text
    \/ /\ \A person_word \in person_context(keyword) : person_word \notin text
       /\ \E regional_word \in {"saratov"} : regional_word \in text

\* _is_valid_regional_keyword (lines 112-137).
_is_valid_regional_keyword(keyword, text) ==
    IF keyword \notin ambiguous_keywords THEN TRUE
    ELSE LET geographic_found ==
                 \E geo_word \in geographic_context(keyword) : geo_word \in text
             person_found ==
                 \E person_word \in person_context(keyword) : person_word \in text
         IN  IF geographic_found /\ ~person_found THEN TRUE
             ELSE IF person_found THEN FALSE
             ELSE IF \E regional_word \in regional_words : regional_word \in text
             THEN TRUE
             ELSE FALSE

\* RegionKeywordValidator.validate (lines 92-110): "None" or the kind of the
\* reason returned.  keywords and exclude_keywords are the lists as
\* configured; __init__ lower-cases them (lines 73-74).
region_validate(keywords, exclude_keywords, words) ==
    LET text == lowered_text(words)
        found_keywords ==
            {keyword \in {lower(kw) : kw \in keywords} :
                keyword \in text /\ _is_valid_regional_keyword(keyword, text)}
    IN  IF \E exclude_word \in {lower(kw) : kw \in exclude_keywords} :
              exclude_word \in text
        THEN "excluded"
        ELSE IF found_keywords = {} THEN "no_keywords"
        ELSE "None"

\* What _is_valid_regional_keyword answered for each keyword validate asked
\* it about (lines 101-106): none when an exclude keyword ended the call.
keywords_checked(keywords, exclude_keywords, words) ==
    LET text == lowered_text(words)
        asked ==
            IF \E exclude_word \in {lower(kw) : kw \in exclude_keywords} :
                   exclude_word \in text
            THEN {}
            ELSE {keyword \in {lower(kw) : kw \in keywords} : keyword \in text}
    IN  [keyword \in asked |-> _is_valid_regional_keyword(keyword, text)]

\* The texts of at most MaxWords words.
ValidatedTexts == {t \in SUBSET Words : Cardinality(t) <= MaxWords}

InitValidate ==
    /\ PipelineConstructed
    /\ ParserConstructed(Sources, 1)
    /\ BreakerConstructed
    /\ RetryDecorated(DefaultRetryConfig)
    /\ ProcessorConstructed
    /\ BusConstructed
    /\ ApplicationCreated
    /\ arguments \in [keywords : SUBSET {"Saratov", "balakovo", "pugachev",
                                          "engels"},
                      exclude_keywords : SUBSET {"moskva"},
                      text : ValidatedTexts]
    /\ returned = NoReturn

\* validate is called for the item.
RegionValidate ==
    /\ UNCHANGED notFunctionVars
    /\ returned = NoReturn
    /\ returned' = [kind |-> "reason",
                    reason |-> region_validate(arguments.keywords,
                                               arguments.exclude_keywords,
                                               arguments.text),
                    checked |-> keywords_checked(arguments.keywords,
                                                 arguments.exclude_keywords,
                                                 arguments.text)]
    /\ UNCHANGED arguments

NextValidate == RegionValidate

SpecValidate == InitValidate /\ [][NextValidate]_vars

(***************************************************************************)
(* Properties of the region-relevance check (specification SpecValidate).  *)
(***************************************************************************)
\* The text contains the keyword, letter case aside.
ContainsKeyword(words, kw) ==
    \E w \in words : lower(kw) \in substrings(lower(w))

\* The text has a geographic word, a word of the person the keyword may
\* name, a phrase that names the region.
GeographicPresent(words) == ContainsKeyword(words, "gorod")

PersonPresent(words, kw) ==
    \/ kw = "pugachev" /\ ContainsKeyword(words, "pugacheva")
    \/ kw = "pugachev" /\ ContainsKeyword(words, "koncert")
    \/ kw = "engels" /\ ContainsKeyword(words, "filosof")

AnchorPresent(words) == ContainsKeyword(words, "saratov")

\* The disambiguation accepts the ambiguous keyword in the text.
ResolvesToAccept(words, kw) ==
    ~PersonPresent(words, kw) /\ (GeographicPresent(words) \/ AnchorPresent(words))

\* C30: validate returns no reason exactly when the text contains no exclude
\* keyword and contains a configured keyword that is not ambiguous or that
\* the disambiguation accepts; an exclude keyword in the text gives a reason
\* whatever else the text contains.
C30_RegionRelevance ==
    returned.kind = "reason"
      => LET excluded ==
                 \E kw \in arguments.exclude_keywords :
                     ContainsKeyword(arguments.text, kw)
             relevant ==
                 \E kw \in arguments.keywords :
                     /\ ContainsKeyword(arguments.text, kw)
                     /\ \/ lower(kw) \notin {"pugachev", "engels"}
                        \/ ResolvesToAccept(arguments.text, lower(kw))
         IN  /\ (returned.reason = "None") <=> (~excluded /\ relevant)
             /\ excluded => returned.reason = "excluded"

\* A text with a keyword that is not ambiguous and with the ambiguous one in
\* a person's context was accepted.
C30_Witness ==
    /\ returned.kind = "reason"
    /\ returned.reason = "None"
    /\ arguments.keywords = {"balakovo", "pugachev"}
    /\ arguments.text = {"balakovo", "pugacheva", "koncert"}

\* C31: for an ambiguous keyword found in the text, the disambiguation
\* accepts when a geographic word is present and no person word is, rejects
\* when a person word is present whatever else is, and with neither accepts
\* exactly when an anchor phrase is present.
C31_DecisionTable ==
    returned.kind = "reason"
      => \A kw \in DOMAIN returned.checked \cap {"pugachev", "engels"} :
            LET geo == GeographicPresent(arguments.text)
                person == PersonPresent(arguments.text, kw)
                anchor == AnchorPresent(arguments.text)
                accepted == returned.checked[kw]
            IN  /\ geo /\ ~person => accepted
                /\ person => ~accepted
                /\ ~geo /\ ~person => (accepted <=> anchor)

\* Two ambiguous keywords in one text with a geographic word: the one whose
\* person word is present was rejected, the other accepted.
C31_Witness ==
    /\ returned.kind = "reason"
    /\ arguments.text = {"pugacheva", "engels", "gorod"}
    /\ DOMAIN returned.checked = {"pugachev", "engels"}
    /\ ~returned.checked["pugachev"]
    /\ returned.checked["engels"]

(***************************************************************************)
(* InMemoryEventBus on its own (specification SpecBus).  A handler is      *)
(* named by what it does when publish calls it: it returns, it raises an   *)
(* Exception, it unsubscribes itself from the event type and returns, or   *)
(* it rejects the call (the call expression of line 26 raises, as for a    *)
(* coroutine function that does not take two arguments).  Coroutine        *)
(* functions and plain callables end in the same gather and are not told   *)
(* apart.                                                                  *)
(***************************************************************************)
HandlerKinds == {"returns", "raises", "unsubscribes", "rejects"}

\* list.remove(x): the list without the first occurrence of x; the list
\* itself when x is not in it (the ValueError of lines 50-51).
Remove(list, x) ==
    IF \E i \in 1..Len(list) : list[i] = x
    THEN LET i == CHOOSE k \in 1..Len(list) :
                      /\ list[k] = x
                      /\ \A j \in 1..(k - 1) : list[j] # x
         IN  SubSeq(list, 1, i - 1) \o SubSeq(list, i + 1, Len(list))
    ELSE list

\* The list with every occurrence of x removed.
RemoveAll(list, x) == SelectSeq(list, LAMBDA h : h # x)

\* subscribe (lines 41-43).
subscribe(hs, event_type, handler) ==
    [hs EXCEPT ![event_type] = Append(@, handler)]

\* unsubscribe (lines 45-51).
unsubscribe(hs, event_type, handler) ==
    [hs EXCEPT ![event_type] = Remove(@, handler)]

\* clear_handlers(event_type) (lines 56-59).
clear_handlers(hs, event_type) == [hs EXCEPT ![event_type] = <<>>]

\* InMemoryEventBus.publish (lines 13-39).  `handlers` of line 16 is the
\* list object of self.handlers, not a copy: what a handler removes during
\* the gather of line 36 is gone from it when line 39 reads handlers[i].
\*   tasks      the awaitables of the handlers whose call did not raise
\*   left       the list after the gather: each call of the handler that
\*              unsubscribes itself has removed one occurrence of it
\*   IndexError line 39 reads the list at the position of a failed task
InMemoryEventBus_publish(hs, event_type) ==
    LET registered == IF event_type \in DOMAIN hs THEN hs[event_type] ELSE <<>>
        tasks == SelectSeq(registered, LAMBDA h : h # "rejects")
        left == RemoveAll(registered, "unsubscribes")
        IndexError == \E i \in 1..Len(tasks) :
                          tasks[i] = "raises" /\ i > Len(left)
    IN  IF registered = <<>>
        THEN [handlers |-> hs, called |-> <<>>, awaited |-> <<>>,
              raised |-> FALSE]
        ELSE [handlers |-> [hs EXCEPT ![event_type] = left],
              called |-> registered, awaited |-> tasks,
              raised |-> IndexError]

InitBus ==
    /\ PipelineConstructed
    /\ ParserConstructed(Sources, 1)
    /\ BreakerConstructed
    /\ RetryDecorated(DefaultRetryConfig)
    /\ ProcessorConstructed
    /\ BusConstructed
    /\ ApplicationCreated
    /\ NoFunctionCalled

Subscribe(event_type, handler) ==
    /\ UNCHANGED notBusVars
    /\ Len(handlers[event_type]) < MaxHandlers
    /\ handlers' = subscribe(handlers, event_type, handler)
    /\ published' = [kind |-> "subscribe"]
    /\ UNCHANGED runs

Unsubscribe(event_type, handler) ==
    /\ UNCHANGED notBusVars
    /\ handlers' = unsubscribe(handlers, event_type, handler)
    /\ published' = [kind |-> "unsubscribe"]
    /\ UNCHANGED runs

ClearHandlers(event_type) ==
    /\ UNCHANGED notBusVars
    /\ handlers' = clear_handlers(handlers, event_type)
    /\ published' = [kind |-> "clear_handlers"]
    /\ UNCHANGED runs

Publish(event_type) ==
    /\ UNCHANGED notBusVars
    /\ LET p == InMemoryEventBus_publish(handlers, event_type)
       IN  /\ handlers' = p.handlers
           /\ published' = [kind |-> "publish", type |-> event_type,
                            subscribed |-> handlers[event_type],
                            called |-> p.called, awaited |-> p.awaited,
                            raised |-> p.raised]
    /\ UNCHANGED runs

NextBus ==
    \E event_type \in BusTypes :
        \/ \E handler \in HandlerKinds : Subscribe(event_type, handler)
        \/ \E handler \in HandlerKinds : Unsubscribe(event_type, handler)
        \/ ClearHandlers(event_type)
        \/ Publish(event_type)

SpecBus == InitBus /\ [][NextBus]_vars

(***************************************************************************)
(* Properties of the event bus (specification SpecBus).                    *)
(***************************************************************************)
\* C32: publish calls every handler subscribed to the type once for each of
\* its subscriptions, whatever the other handlers do, and returns to the
\* publisher without raising; with no subscriber it calls nothing and
\* returns.
C32_PublishCallsAllAndReturns ==
    published.kind = "publish"
      => /\ published.called = published.subscribed
         /\ ~published.raised

(***************************************************************************)
(* One cycle of NewsBotService for one item that is stored as PARSED, run  *)
(* twice with the same answers of the collaborators (specification         *)
(* SpecObservers): runs.bare publishes to a bus without handlers,          *)
(* runs.observed to the bus `handlers`, whose handlers were subscribed     *)
(* before the cycle.  A run is the item's status, the calls made to         *)
(* storage, transformer and broadcaster, the counts and the cycle result.  *)
(***************************************************************************)
Subscriptions ==
    UNION {[1..n -> HandlerKinds] : n \in 0..MaxHandlers}

NoHandlers == [t \in BusTypes |-> <<>>]

RunStarted ==
    [pc |-> "process", status |-> PARSED, calls |-> <<>>,
     processed_count |-> 0, sent_count |-> 0, result |-> NoResult]

\* _process_news_content for the item (news_bot_service.py 188-238): the
\* transformer answers with a text or with nothing, the update to PROCESSED
\* is stored or not.  An exception of publish is one of the try of line 201:
\* the handler of lines 227-230 marks the item FAILED.
observed_process(r, hs, answer, stored) ==
    LET c0 == Append(r.calls, "get_news_by_status PARSED")
        c1 == Append(c0, "process_content")
        c2 == Append(c1, "update_news_status PROCESSED")
        p == InMemoryEventBus_publish(hs, "news.processed")
    IN  IF answer = "text"
        THEN IF stored
             THEN IF p.raised
                  THEN [run |-> [r EXCEPT
                                   !.pc = "send",
                                   !.calls = Append(c2, "update_news_status FAILED"),
                                   !.status = FAILED,
                                   !.processed_count = 1],
                        handlers |-> p.handlers]
                  ELSE [run |-> [r EXCEPT
                                   !.pc = "send",
                                   !.calls = Append(c2, "sleep"),
                                   !.status = PROCESSED,
                                   !.processed_count = 1],
                        handlers |-> p.handlers]
             ELSE [run |-> [r EXCEPT !.pc = "send",
                                     !.calls = Append(c2, "sleep")],
                   handlers |-> hs]
        ELSE [run |-> [r EXCEPT
                         !.pc = "send",
                         !.calls = Append(c1, "update_news_status FAILED"),
                         !.status = FAILED],
              handlers |-> hs]

\* _send_notifications for the item (lines 241-297).  An exception of
\* publish reaches the handler of lines 294-297: the stage returns 0.
observed_send(r, hs, success) ==
    LET c0 == Append(r.calls, "get_news_by_status PROCESSED")
        c1 == Append(c0, "send_multiple_news")
        p == InMemoryEventBus_publish(hs, "news.sent")
    IN  IF r.status # PROCESSED
        THEN [run |-> [r EXCEPT !.pc = "complete", !.calls = c0],
              handlers |-> hs]
        ELSE IF success
        THEN [run |-> [r EXCEPT
                         !.pc = "complete",
                         !.calls = Append(c1, "update_news_status SENT"),
                         !.status = SENT,
                         !.sent_count = IF p.raised THEN 0 ELSE 1],
              handlers |-> p.handlers]
        ELSE [run |-> [r EXCEPT
                         !.pc = "complete",
                         !.calls = Append(c1, "update_news_status FAILED"),
                         !.status = FAILED],
              handlers |-> hs]

\* The end of run_full_cycle (lines 88-144): statistics, the event
\* cycle.completed and the result; an exception of publish is one of the try
\* of line 54 and the handler of lines 126-144 returns the failed result
\* after publishing error.occurred.
observed_complete(r, hs) ==
    LET c0 == Append(r.calls, "get_statistics")
        p == InMemoryEventBus_publish(hs, "cycle.completed")
        e == InMemoryEventBus_publish(p.handlers, "error.occurred")
    IN  IF p.raised
        THEN [run |-> [r EXCEPT
                         !.pc = "done", !.calls = c0,
                         !.result = IF e.raised
                                    THEN cycle_except_reraise(<<>>)
                                    ELSE cycle_except_result(<<>>)],
              handlers |-> e.handlers]
        ELSE [run |-> [r EXCEPT
                         !.pc = "done", !.calls = c0,
                         !.result =
                             [kind |-> "returned", success |-> TRUE,
                              processed_count |->
                                  r.processed_count + r.sent_count,
                              failed_count |-> 0, errors |-> <<>>]],
              handlers |-> p.handlers]

InitObservers ==
    /\ PipelineConstructed
    /\ ParserConstructed(Sources, 1)
    /\ BreakerConstructed
    /\ RetryDecorated(DefaultRetryConfig)
    /\ ProcessorConstructed
    /\ NoFunctionCalled
    /\ handlers \in [BusTypes -> Subscriptions]
    /\ published = NoPublish
    /\ runs = [r \in {"bare", "observed"} |-> RunStarted]
    /\ seen = {}
    /\ ApplicationCreated

\* Both runs take the step `step` of the cycle; the observed one leaves the
\* bus as its publish calls left it.
BothRuns(bare, observed) ==
    /\ UNCHANGED notBusVars
    /\ runs' = [r \in {"bare", "observed"} |->
                   IF r = "bare" THEN bare.run ELSE observed.run]
    /\ handlers' = observed.handlers
    /\ UNCHANGED published

ObservedProcess ==
    /\ runs["bare"].pc = "process"
    /\ \E answer \in {"text", "nothing"}, stored \in BOOLEAN :
           BothRuns(observed_process(runs["bare"], NoHandlers, answer, stored),
                    observed_process(runs["observed"], handlers, answer, stored))

ObservedSend ==
    /\ runs["bare"].pc = "send"
    /\ \E success \in BOOLEAN :
           BothRuns(observed_send(runs["bare"], NoHandlers, success),
                    observed_send(runs["observed"], handlers, success))

ObservedComplete ==
    /\ runs["bare"].pc = "complete"
    /\ BothRuns(observed_complete(runs["bare"], NoHandlers),
                observed_complete(runs["observed"], handlers))

NextObservers == ObservedProcess \/ ObservedSend \/ ObservedComplete

SpecObservers == InitObservers /\ [][NextObservers]_vars

(***************************************************************************)
(* Property of the subscribers (specification SpecObservers).              *)
(***************************************************************************)
\* C33: the run with subscribers and the run without have, at every step of
\* the cycle, the same item status, the same calls to storage, transformer
\* and broadcaster, and the same cycle result.
C33_SubscribersDoNotChangeTheRun ==
    runs["observed"] = runs["bare"]

(***************************************************************************)
(* Property of the deduplication across cycles (specification Spec).       *)
(***************************************************************************)
\* C34: a row inserted by a cycle never has the fingerprint, or the
\* non-empty URL, of a row inserted before, whether or not that row is still
\* in the table.
C34_SeenContentNeverPersistedAgain ==
    [][\A i \in Ids :
          news[i].status = "none" /\ news'[i].status # "none"
            => \A old \in seen :
                  /\ old.original_hash # news'[i].original_hash
                  /\ news'[i].url # "" => old.url # news'[i].url]_vars

(***************************************************************************)
(* The cycle while the collaborators are healthy and storage works         *)
(* (specification SpecCycling): the steps of Spec in which the health gate *)
(* passes, the two stages read their batch, and every status update is     *)
(* stored.  The scheduler keeps starting cycles and every awaited call     *)
(* returns, which is the weak fairness of the steps.                       *)
(***************************************************************************)
HealthGatePasses == pc = "health" => pc' = "parse"

StorageWorks ==
    /\ pc = "process" => batch' = unprocessed_news(news, max_news_per_run)
    /\ pc = "process_item" => lastCall'.stored
    /\ pc = "send" => batch' = news_to_send(news)
    /\ pc = "update_results" =>
           news'[Head(results).news_id].status \in {SENT, FAILED}

HealthCheckPassing == HealthCheck /\ HealthGatePasses

ProcessBeginReading == ProcessBegin /\ StorageWorks

ProcessItemStored == ProcessItem /\ StorageWorks

SendBeginReading == SendBegin /\ StorageWorks

UpdateResultStored == UpdateResult /\ StorageWorks

NextCycling ==
    \/ StartCycle
    \/ HealthCheckPassing
    \/ ParseAndSave
    \/ ProcessBeginReading
    \/ ProcessItemStored
    \/ SendBeginReading
    \/ SendMultiple
    \/ UpdateResultStored
    \/ Cleanup
    \/ FinishCycle

SpecCycling == Init /\ [][NextCycling]_vars /\ WF_vars(NextCycling)

Registered(interface) ==
    IF interface \in {"IMetricsCollector", "IEventBus"}
    THEN "class" ELSE "function"

\* The interfaces each factory resolves, in the order written in
\* _setup_container (lines 90-129).
FactoryArguments(interface) ==
    CASE interface = "INewsRepository" -> <<"IMetricsCollector">>
      [] interface = "INewsParser" ->
             <<"NewsValidationChain", "IMetricsCollector">>
      [] interface = "IContentProcessor" -> <<"IMetricsCollector">>
      [] interface = "INotificationService" -> <<"IMetricsCollector">>
      [] interface = "IHealthChecker" ->
             <<"INewsRepository", "IContentProcessor",
               "INotificationService", "IMetricsCollector">>
      [] interface = "NewsBotService" ->
             <<"INewsParser", "INewsRepository", "IContentProcessor",
               "INotificationService", "IHealthChecker", "IMetricsCollector",
               "IEventBus">>
      [] OTHER -> <<>>

\* The constructor of the implementation.  AsyncNewsParserService.__init__
\* makes one breaker per key of the sources dict
\* (news_parser_service.py 28-32).
NewObject(interface, injected, news_sources) ==
    [type |-> interface,
     injected |-> injected,
     session |-> "missing",
     circuit_breakers |->
         IF interface = "INewsParser"
         THEN {[key |-> id, made_by |-> "__init__"] : id \in DOMAIN news_sources}
         ELSE {}]

\* resolve stores the object it created only for a class (lines 46-51); what
\* a factory function returns is handed out and forgotten (lines 52-54).
keeps_instance(interface) == Registered(interface) = "class"

\* DIContainer.resolve (container.py 34-56) on c = [objects, singletons]:
\* the container afterwards and the object resolved.  resolve_all resolves
\* the arguments of a factory from left to right.
RECURSIVE resolve(_, _, _), resolve_all(_, _, _)
resolve(c, interface, news_sources) ==
    IF c.singletons[interface] # 0
    THEN [objects |-> c.objects, singletons |-> c.singletons,
          id |-> c.singletons[interface]]
    ELSE LET args == resolve_all(c, FactoryArguments(interface), news_sources)
             heap == Append(args.objects,
                            NewObject(interface, args.ids, news_sources))
         IN  [objects |-> heap,
              singletons |-> IF keeps_instance(interface)
                             THEN [args.singletons EXCEPT
                                     ![interface] = Len(heap)]
                             ELSE args.singletons,
              id |-> Len(heap)]

resolve_all(c, interfaces, news_sources) ==
    IF interfaces = <<>>
    THEN [objects |-> c.objects, singletons |-> c.singletons, ids |-> <<>>]
    ELSE LET first == resolve(c, Head(interfaces), news_sources)
             rest == resolve_all(first, Tail(interfaces), news_sources)
         IN  [objects |-> rest.objects, singletons |-> rest.singletons,
              ids |-> <<first.id>> \o rest.ids]

Container == [objects |-> objects, singletons |-> singletons]

\* self.parser and self.content_processor of the NewsBotService: the first
\* and the third argument of its constructor.
ServiceParser == objects[app.bot_service].injected[1]

ServiceProcessor == objects[app.bot_service].injected[3]

\* _get_service_contexts (app.py 256-263): the parser and the content
\* processor are resolved and __aenter__ opens a session on each of them.
entered_contexts ==
    LET pa == resolve(Container, "INewsParser", app.news_sources)
        cp == resolve(pa, "IContentProcessor", app.news_sources)
    IN  [objects |-> [cp.objects EXCEPT ![pa.id].session = "open",
                                        ![cp.id].session = "open"],
         singletons |-> cp.singletons,
         parser |-> pa.id, processor |-> cp.id]

\* __aexit__ of both (news_parser_service.py 58-60).
exited_contexts ==
    [objects EXCEPT ![app.context_parser].session = "closed",
                    ![app.context_processor].session = "closed"]

\* The breaker parse_source takes for a source (lines 131-134): the one
\* stored under source.name, or a new CircuitBreaker() stored under that
\* name.
breaker_of(breakers, name) ==
    IF \E b \in breakers : b.key = name
    THEN CHOOSE b \in breakers : b.key = name
    ELSE [key |-> name, made_by |-> "parse_source"]

\* The configurations of the sources: key -> name.
SourceConfigs == [SourceIds -> SourceNames]

InitApp ==
    /\ PipelineConstructed
    /\ ParserConstructed(Sources, 1)
    /\ BreakerConstructed
    /\ RetryDecorated(DefaultRetryConfig)
    /\ ProcessorConstructed
    /\ BusConstructed
    /\ EmptyContainer
    /\ \E news_sources \in SourceConfigs : app = NewApplication(news_sources)
    /\ NoFunctionCalled

\* _initialize_services (app.py 133-141).
Initialize ==
    /\ UNCHANGED notAppVars
    /\ app.pc = "created"
    /\ LET repository == resolve(Container, "INewsRepository", app.news_sources)
           s == resolve(repository, "NewsBotService", app.news_sources)
       IN  /\ objects' = s.objects
           /\ singletons' = s.singletons
           /\ app' = [app EXCEPT !.pc = "initialized", !.bot_service = s.id]

\* run_once up to the cycle (lines 143-151).
RunOnce ==
    /\ UNCHANGED notAppVars
    /\ app.pc = "initialized"
    /\ LET e == entered_contexts
       IN  /\ objects' = e.objects
           /\ singletons' = e.singletons
           /\ app' = [app EXCEPT !.pc = "once", !.context_parser = e.parser,
                                 !.context_processor = e.processor]

\* run_scheduler up to the first cycle (lines 161-171).
RunScheduler ==
    /\ UNCHANGED notAppVars
    /\ app.pc = "initialized"
    /\ LET e == entered_contexts
       IN  /\ objects' = e.objects
           /\ singletons' = e.singletons
           /\ app' = [app EXCEPT !.pc = "first", !.handlers_installed = TRUE,
                                 !.context_parser = e.parser,
                                 !.context_processor = e.processor]

\* signal_handler (lines 267-269) runs whenever SIGINT or SIGTERM arrives.
Signal ==
    /\ UNCHANGED notAppVars
    /\ app.handlers_installed
    /\ app.pc # "stopped"
    /\ ~app.shutdown_event
    /\ app' = [app EXCEPT !.shutdown_event = TRUE]
    /\ UNCHANGED <<objects, singletons>>

\* `await self.bot_service.run_full_cycle()` is reached (lines 152, 173,
\* 186): the cycle calls the parser and the content processor the service
\* was constructed with.
CycleStart ==
    /\ UNCHANGED notAppVars
    /\ app.pc \in {"once", "first", "timeout"}
    /\ app' = [app EXCEPT
                 !.pc = IF app.pc = "once" THEN "in_once" ELSE "in_cycle",
                 !.running = @ + 1,
                 !.cycles = @ + 1,
                 !.cycle =
                     [parser_session |-> objects[ServiceParser].session,
                      processor_session |-> objects[ServiceProcessor].session,
                      same_parser |-> ServiceParser = app.context_parser,
                      same_processor |->
                          ServiceProcessor = app.context_processor,
                      after_shutdown |-> app.shutdown_event,
                      used |-> {},
                      unavailable |-> {}]]
    /\ UNCHANGED <<objects, singletons>>

\* parse_source for one source of the cycle (news_parser_service.py
\* 130-148): the breaker is looked up, then is_source_available sends the
\* HEAD request through self.session; without the attribute the
\* AttributeError is caught and the source is unavailable (lines 166-184).
ParseSource(id) ==
    /\ UNCHANGED notAppVars
    /\ app.pc \in {"in_once", "in_cycle"}
    /\ id \notin {u.source : u \in app.cycle.used}
    /\ LET parser == objects[ServiceParser]
           name == app.news_sources[id]
           circuit_breaker == breaker_of(parser.circuit_breakers, name)
       IN  /\ objects' = [objects EXCEPT
                            ![ServiceParser].circuit_breakers =
                                @ \cup {circuit_breaker}]
           /\ \E head_ok \in BOOLEAN :
                app' = [app EXCEPT
                          !.cycle.used =
                              @ \cup {[source |-> id,
                                       key |-> circuit_breaker.key,
                                       made_by |-> circuit_breaker.made_by]},
                          !.cycle.unavailable =
                              IF parser.session = "open" /\ head_ok THEN @
                              ELSE @ \cup {[source |-> id,
                                            session |-> parser.session]}]
    /\ UNCHANGED singletons

\* run_full_cycle returns its result, successful or failed.
CycleReturn ==
    /\ UNCHANGED notAppVars
    /\ app.pc \in {"in_once", "in_cycle"}
    /\ \E ended \in {"success", "failed"} :
         app' = [app EXCEPT
                   !.pc = IF app.pc = "in_once" THEN "exiting" ELSE "loop",
                   !.running = @ - 1,
                   !.last_result = ended]
    /\ UNCHANGED <<objects, singletons>>

\* `while not self._shutdown_event.is_set()` and the wait_for of lines
\* 176-183: the loop ends when the event is set before or during the wait.
LoopEnds ==
    /\ UNCHANGED notAppVars
    /\ app.pc = "loop"
    /\ app.shutdown_event
    /\ app' = [app EXCEPT !.pc = "exiting"]
    /\ UNCHANGED <<objects, singletons>>

\* The wait_for times out (lines 184-185); the cycle of line 186 is next.
WaitTimesOut ==
    /\ UNCHANGED notAppVars
    /\ app.pc = "loop"
    /\ ~app.shutdown_event
    /\ app.cycles < MaxCycles
    /\ app' = [app EXCEPT !.pc = "timeout"]
    /\ UNCHANGED <<objects, singletons>>

\* The `async with` block is left (lines 159, 190).
ExitContexts ==
    /\ UNCHANGED notAppVars
    /\ app.pc = "exiting"
    /\ objects' = exited_contexts
    /\ app' = [app EXCEPT !.pc = "stopped"]
    /\ UNCHANGED singletons

NextApp ==
    \/ Initialize
    \/ RunOnce
    \/ RunScheduler
    \/ Signal
    \/ CycleStart
    \/ \E id \in SourceIds : ParseSource(id)
    \/ CycleReturn
    \/ LoopEnds
    \/ WaitTimesOut
    \/ ExitContexts

SpecApp == InitApp /\ [][NextApp]_vars

(***************************************************************************)
(* Properties of the application (specification SpecApp).                  *)
(***************************************************************************)
\* C36: whenever a cycle runs, the parser and the content processor the
\* service calls are the objects whose sessions the application opened for
\* the cycle, their sessions are open, and no source is reported
\* unavailable for a missing session.
C36_ServiceCallsTheOpenedInstances ==
    app.running > 0
      => /\ app.cycle.same_parser
         /\ app.cycle.same_processor
         /\ app.cycle.parser_session = "open"
         /\ app.cycle.processor_session = "open"
         /\ \A u \in app.cycle.unavailable : u.session # "missing"

\* C37: the breaker parse_source uses for a source is the one the
\* constructor made for that source, and two different sources never use
\* the same breaker.
C37_OneConstructorBreakerPerSource ==
    \A u \in app.cycle.used :
        /\ u.made_by = "__init__"
        /\ u.key = u.source
        /\ \A v \in app.cycle.used : v.source # u.source => v.key # u.key

\* C40: the scheduler never has two cycles running, goes on to the next
\* cycle after the interval whether the last cycle succeeded or failed, and
\* starts no cycle once the shutdown event is set.
C40_SchedulerCycles ==
    [][/\ app'.running <= 1
       /\ (app.pc = "loop" /\ ~app.shutdown_event /\ app'.pc # "loop")
            => app'.pc = "timeout"
       /\ app'.running > app.running => ~app.shutdown_event]_vars

send_max_attempts == 3

\* What bot.send_message does for one item: the message is sent at the first
\* attempt; a TelegramError at the first attempt and sent at the second; a
\* TelegramError at every attempt; another exception.
TelegramAnswers == {"sent", "sent_on_retry", "telegram_error", "error"}

\* send_news (lines 22-54): the breaker after the call, the message_id
\* returned (0: None) and the send_message calls made.  _send_news_internal
\* re-raises a TelegramError, which the retry wrapper retries and the
\* breaker counts; any other exception is caught inside it and None is
\* returned normally (lines 51-54).  send_news catches whatever
\* circuit_breaker.call raises and returns None (lines 26-29).
send_news(cb, answer) ==
    IF CB_Rejects(cb)
    THEN [breaker |-> cb, message_id |-> 0, invocations |-> 0]
    ELSE LET trial == CB_IsTrial(cb)
             admitted == CB_Admit(cb)
         IN  CASE answer = "sent" ->
                      [breaker |-> CB_OnSuccess(admitted, trial),
                       message_id |-> 1, invocations |-> 1]
               [] answer = "sent_on_retry" ->
                      [breaker |-> CB_OnSuccess(admitted, trial),
                       message_id |-> 1, invocations |-> 2]
               [] answer = "telegram_error" ->
                      [breaker |-> CB_OnFailure(admitted, trial),
                       message_id |-> 0, invocations |-> send_max_attempts]
               [] answer = "error" ->
                      [breaker |-> CB_OnSuccess(admitted, trial),
                       message_id |-> 0, invocations |-> 1]

\* The status _send_notifications stores for a result (news_bot_service.py
\* 270-289).
status_of_result(success) == IF success THEN SENT ELSE FAILED

\* send_multiple_news (lines 57-78): the items one after another through
\* send_news; one result per item.
RECURSIVE send_multiple_news(_, _)
send_multiple_news(cb, answers) ==
    IF answers = <<>>
    THEN [breaker |-> cb, results |-> <<>>]
    ELSE LET first == send_news(cb, Head(answers))
             rest == send_multiple_news(first.breaker, Tail(answers))
             success == first.message_id # 0
         IN  [breaker |-> rest.breaker,
              results |-> <<[message_id |-> first.message_id,
                             success |-> success,
                             invocations |-> first.invocations,
                             status |-> status_of_result(success)]>>
                          \o rest.results]

\* The batches of one call.
Batches == UNION {[1..n -> TelegramAnswers] : n \in 1..MaxBatch}

InitDeliver ==
    /\ PipelineConstructed
    /\ ParserConstructed(Sources, 1)
    /\ BreakerConstructed
    /\ RetryDecorated(DefaultRetryConfig)
    /\ ProcessorConstructed
    /\ BusConstructed
    /\ ApplicationCreated
    /\ NoFunctionCalled

\* One send_multiple_news call of _send_notifications (line 266) and the
\* loop over its results.
SendMultipleNews ==
    /\ UNCHANGED notDeliverVars
    /\ \E answers \in Batches :
         LET r == send_multiple_news(breaker, answers)
         IN  /\ arguments' = answers
             /\ breaker' = r.breaker
             /\ returned' = [kind |-> "send_multiple_news",
                             results |-> r.results]

\* TickSeconds pass between two cycles.
DeliverTick ==
    /\ UNCHANGED notDeliverVars
    /\ breaker' = CB_Tick(breaker)
    /\ arguments' = <<>>
    /\ returned' = NoReturn

NextDeliver ==
    \/ SendMultipleNews
    \/ DeliverTick

SpecDeliver == InitDeliver /\ [][NextDeliver]_vars

(***************************************************************************)
(* Properties of the delivery (specification SpecDeliver).                 *)
(***************************************************************************)
\* C38: an item is marked FAILED in the delivery stage only when the
\* broadcaster was invoked for it in that call.
C38_FailedOnlyAfterAnAttempt ==
    returned.kind = "send_multiple_news"
      => \A k \in 1..Len(returned.results) :
             returned.results[k].status = FAILED
               => returned.results[k].invocations > 0

====
